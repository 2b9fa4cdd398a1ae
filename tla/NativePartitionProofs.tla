----------------------- MODULE NativePartitionProofs -----------------------
(* The partition of a row over tiles and cores is right for every tile       *)
(* length, block of bytes, number of cores and word, and for rows and        *)
(* sequences of any length that fit a word.                                  *)
EXTENDS NativePartition, TLAPS

-----------------------------------------------------------------------------
(* Division.                                                               *)

\* What a division leaves.
LEMMA Division ==
  ASSUME NEW d \in Nat \ {0}, NEW n \in Int
  PROVE  /\ n = (d * (n \div d)) + (n % d)
         /\ n \div d \in Int /\ n % d \in 0 .. d - 1
  BY SMT

\* A number below the divisor is its own remainder.
LEMMA Small ==
  ASSUME NEW d \in Nat \ {0}, NEW n \in 0 .. d - 1
  PROVE  n % d = n /\ n \div d = 0
  BY SMT

\* A quotient and a remainder that fit are the quotient and the remainder.
LEMMA Unique ==
  ASSUME NEW d \in Nat \ {0}, NEW n \in Int, NEW q \in Int, NEW r \in 0 .. d - 1,
         n = (d * q) + r
  PROVE  n \div d = q /\ n % d = r
<1> DEFINE p == n \div d
           s == n % d
           z == p - q
<1>1. p \in Int /\ s \in 0 .. d - 1 /\ n = (d * p) + s
  BY Division
<1> HIDE DEF p, s
<1>2. d * z = (d * p) - (d * q) /\ z \in Int /\ d * p \in Int /\ d * q \in Int
  BY <1>1, SMT
<1>3. d * z = r - s
  BY <1>1, <1>2, SMT
<1> HIDE DEF z
<1>4. z = 0
  <2>1. CASE z >= 1
    BY <1>1, <1>2, <1>3, <2>1, SMT
  <2>2. CASE z <= 0 - 1
    BY <1>1, <1>2, <1>3, <2>2, SMT
  <2> QED
    BY <1>2, <2>1, <2>2, SMT
<1>5. d * 0 = r - s
  BY <1>3, <1>4
<1>6. r = s
  BY <1>1, <1>5, SMT
<1>7. p = q
  BY <1>1, <1>4, SMT DEF z
<1> QED
  BY <1>6, <1>7 DEF p, s

\* The quotient of n is q exactly when n lies in the q-th interval.
LEMMA Interval ==
  ASSUME NEW d \in Nat \ {0}, NEW n \in Int, NEW q \in Int
  PROVE  (n \div d = q) <=> n - (d * q) \in 0 .. d - 1
<1>1. d * q \in Int
  BY SMT
<1>2. ASSUME n \div d = q PROVE n - (d * q) \in 0 .. d - 1
  <2>1. n = (d * q) + (n % d) /\ n % d \in 0 .. d - 1
    BY <1>2, Division
  <2> QED
    BY <1>1, <2>1, SMT
<1>3. ASSUME n - (d * q) \in 0 .. d - 1 PROVE n \div d = q
  <2> DEFINE r == n - (d * q)
  <2>1. n = (d * q) + r
    BY <1>1, SMT
  <2> HIDE DEF r
  <2> QED
    BY <1>3, <2>1, Unique DEF r
<1> QED
  BY <1>2, <1>3

\* Of two numbers with one remainder, one less than a divisor above the other
\* is not above it.
LEMMA SameRemainder ==
  ASSUME NEW d \in Nat \ {0}, NEW m \in Int, NEW n \in Int, m % d = n % d, n < m + d
  PROVE  n <= m
<1> DEFINE p == m \div d
           q == n \div d
           r == m % d
<1>1. /\ p \in Int /\ q \in Int /\ r \in Int
      /\ m = (d * p) + r /\ n = (d * q) + r
  BY Division, SMT
<1> HIDE DEF p, q, r
<1>2. d * p \in Int /\ d * q \in Int /\ d * (q - p) = (d * q) - (d * p)
  BY <1>1, SMT
<1>3. d * (q - p) < d
  BY <1>1, <1>2, SMT
<1>4. q - p <= 0
  BY <1>1, <1>3, SMT
<1>5. d * (q - p) <= 0
  BY <1>1, <1>4, SMT
<1> QED
  BY <1>1, <1>2, <1>5, SMT

\* The next number with the same remainder.
LEMMA NextRemainder ==
  ASSUME NEW d \in Nat \ {0}, NEW n \in Int
  PROVE  (n + d) % d = n % d
<1> DEFINE q == n \div d
           r == n % d
<1>1. q \in Int /\ r \in 0 .. d - 1 /\ n = (d * q) + r
  BY Division
<1> HIDE DEF q, r
<1>2. n + d = (d * (q + 1)) + r
  BY <1>1, SMT
<1>3. (n + d) % d = r
  BY <1>1, <1>2, Unique, SMT
<1> QED
  BY <1>3 DEF r

\* Multiples stay multiples.
LEMMA Multiples ==
  ASSUME NEW d \in Nat \ {0}, NEW m \in Int, NEW n \in Int, m % d = 0
  PROVE  /\ (m * n) % d = 0
         /\ n % d = 0 => (m - n) % d = 0
<1> DEFINE p == m \div d
           q == n \div d
<1>1. p \in Int /\ q \in Int /\ m = d * p /\ n = (d * q) + (n % d)
  BY Division, SMT
<1> HIDE DEF p, q
<1>2. m * n = (d * (p * n)) + 0 /\ p * n \in Int /\ m * n \in Int
  <2>1. (d * p) * n = d * (p * n) /\ p * n \in Int /\ d * (p * n) \in Int
    BY <1>1, SMT
  <2> QED
    BY <1>1, <2>1, SMT
<1>3. ASSUME n % d = 0 PROVE m - n = (d * (p - q)) + 0 /\ p - q \in Int /\ m - n \in Int
  <2>1. d * (p - q) = (d * p) - (d * q) /\ d * p \in Int /\ d * q \in Int
    BY <1>1, SMT
  <2> QED
    BY <1>1, <1>3, <2>1, SMT
<1>4. 0 \in 0 .. d - 1
  BY SMT
<1>5. (m * n) % d = 0
  BY <1>2, <1>4, Unique
<1>6. ASSUME n % d = 0 PROVE (m - n) % d = 0
  BY <1>3, <1>4, <1>6, Unique
<1> QED
  BY <1>5, <1>6

\* The remainder of a multiple by a multiple is a multiple.
LEMMA RemainderOfMultiple ==
  ASSUME NEW d \in Nat \ {0}, NEW w \in Nat \ {0}, NEW n \in Int, w % d = 0, n % d = 0
  PROVE  (n % w) % d = 0
<1> DEFINE q == n \div w
<1>1. q \in Int /\ n = (w * q) + (n % w) /\ n % w \in Int
  BY Division, SMT
<1> HIDE DEF q
<1>2. w \in Int /\ w * q \in Int
  BY <1>1, SMT
<1>3. (w * q) % d = 0
  BY <1>1, <1>2, Multiples
<1> DEFINE r == n % w
           m == w * q
<1>4. r = n - m
  <2>1. n = m + r /\ m \in Int /\ r \in Int
    BY <1>1, <1>2
  <2> HIDE DEF m, r
  <2> QED
    BY <2>1, SMT
<1> QED
  BY <1>2, <1>3, <1>4, Multiples

-----------------------------------------------------------------------------
(* The host, and what the cores are at.                                    *)

LEMMA Constants ==
  /\ TileLength \in Nat \ {0} /\ Alignment \in Nat \ {0}
  /\ MaxCores \in Nat \ {0} /\ Word \in Nat \ {0}
  /\ TileLength % Alignment = 0 /\ Word % TileLength = 0
  BY NativePartitionAssumption

Launched == phase \in {"running", "returned"}

HostInv ==
  /\ req \in [steps : Nat, neurons : 0 .. MaxNeurons]
  /\ width \in Nat
  /\ phase \in {"bridge", "tiling"} \/ Launched => width = AlignedCount
  /\ phase = "tiling" \/ Launched => req.steps > 0 /\ width > 0 /\ width % Alignment = 0
  /\ Launched => /\ width < Word
                 /\ tileCount = TilesOf(width)
                 /\ DOMAIN core = 0 .. Blocks - 1
  /\ ~Launched => core = <<>>

Fields(c) == [at |-> c.at, tile |-> c.tile, time |-> c.time, voltage |-> c.voltage]
CoresInv ==
  /\ core = [b \in DOMAIN core |-> core[b]]
  /\ \A b \in DOMAIN core :
       /\ core[b] = Fields(core[b])
       /\ core[b].at \in {"tile", "time"}
       /\ core[b].tile \in Nat
       /\ core[b].time \in 0 .. req.steps

\* What the steps of a core do to the cores.
LEMMA LoadTileCores ==
  ASSUME CoresInv, NEW b \in DOMAIN core, LoadTile(b)
  PROVE  /\ DOMAIN core' = DOMAIN core /\ core' = [c \in DOMAIN core |-> core'[c]]
         /\ \A c \in DOMAIN core \ {b} : core'[c] = core[c]
         /\ core'[b] = [at |-> "time", tile |-> core[b].tile, time |-> 0,
                        voltage |-> [j \in Lanes(b) |->
                          IF TileBegin(core[b].tile) + j < width
                          THEN Voltage(TileBegin(core[b].tile) + j, 0) ELSE Garbage]]
<1> DEFINE loaded == [j \in Lanes(b) |->
                        IF TileBegin(core[b].tile) + j < width
                        THEN Voltage(TileBegin(core[b].tile) + j, 0) ELSE Garbage]
<1>1. core' = [core EXCEPT ![b].at = "time", ![b].time = 0, ![b].voltage = loaded]
  BY DEF LoadTile
<1>2. core[b] = Fields(core[b]) /\ core = [c \in DOMAIN core |-> core[c]]
  BY DEF CoresInv
<1> HIDE DEF loaded
<1>3. core'[b] = [at |-> "time", tile |-> core[b].tile, time |-> 0, voltage |-> loaded]
  BY <1>1, <1>2 DEF Fields
<1> QED
  BY <1>1, <1>2, <1>3 DEF loaded

LEMMA TimeStepCores ==
  ASSUME CoresInv, NEW b \in DOMAIN core, TimeStep(b)
  PROVE  LET t == core[b].time
             offset == t * width + TileBegin(core[b].tile)
             charged == [j \in Lanes(b) |->
               IF core[b].voltage[j] = Voltage(InputNeuron(offset + j), t)
                  /\ InputTime(offset + j) = t
                 THEN Voltage(InputNeuron(offset + j), t + 1) ELSE Garbage]
         IN  /\ DOMAIN core' = DOMAIN core /\ core' = [c \in DOMAIN core |-> core'[c]]
             /\ \A c \in DOMAIN core \ {b} : core'[c] = core[c]
             /\ core'[b] = [at |-> core[b].at, tile |-> core[b].tile, time |-> t + 1,
                            voltage |-> charged]
<1> DEFINE t == core[b].time
           offset == t * width + TileBegin(core[b].tile)
           charged == [j \in Lanes(b) |->
             IF core[b].voltage[j] = Voltage(InputNeuron(offset + j), t)
                /\ InputTime(offset + j) = t
               THEN Voltage(InputNeuron(offset + j), t + 1) ELSE Garbage]
<1>1. core' = [core EXCEPT ![b].voltage = charged, ![b].time = t + 1]
  BY DEF TimeStep
<1>2. core[b] = Fields(core[b]) /\ core = [c \in DOMAIN core |-> core[c]]
  BY DEF CoresInv
<1> HIDE DEF charged
<1>3. core'[b] = [at |-> core[b].at, tile |-> core[b].tile, time |-> t + 1, voltage |-> charged]
  BY <1>1, <1>2 DEF Fields
<1> QED
  BY <1>1, <1>2, <1>3 DEF charged

LEMMA StoreFinalCores ==
  ASSUME CoresInv, NEW b \in DOMAIN core, StoreFinal(b)
  PROVE  /\ DOMAIN core' = DOMAIN core /\ core' = [c \in DOMAIN core |-> core'[c]]
         /\ \A c \in DOMAIN core \ {b} : core'[c] = core[c]
         /\ core'[b] = [at |-> "tile", tile |-> (core[b].tile + Blocks) % Word,
                        time |-> core[b].time, voltage |-> core[b].voltage]
<1> DEFINE next == (core[b].tile + Blocks) % Word
<1>1. core' = [core EXCEPT ![b].at = "tile", ![b].tile = next]
  BY DEF StoreFinal
<1>2. core[b] = Fields(core[b]) /\ core = [c \in DOMAIN core |-> core[c]]
  BY DEF CoresInv
<1> HIDE DEF next
<1>3. core'[b] = [at |-> "tile", tile |-> next, time |-> core[b].time, voltage |-> core[b].voltage]
  BY <1>1, <1>2 DEF Fields
<1> QED
  BY <1>1, <1>2, <1>3 DEF next

\* The tiles of a row.
LEMMA TileCount ==
  ASSUME NEW w \in Nat \ {0}
  PROVE  TilesOf(w) \in Nat \ {0}
<1> DEFINE n == w + TileLength - 1
           q == n \div TileLength
<1>1. n \in Int /\ n >= TileLength
  BY Constants, SMT
<1> HIDE DEF n
<1>2. q \in Int /\ n % TileLength \in 0 .. TileLength - 1
      /\ n = (TileLength * q) + (n % TileLength)
  BY <1>1, Constants, Division
<1> HIDE DEF q
<1>3. q > 0
  <2>1. CASE q <= 0
    <3>1. TileLength * q <= 0
      BY <1>2, <2>1, Constants, SMT
    <3> QED
      BY <1>1, <1>2, <3>1, Constants, SMT
  <2> QED
    BY <1>2, <2>1, SMT
<1> QED
  BY <1>2, <1>3, SMT DEF TilesOf, q, n

LEMMA Tiles ==
  ASSUME HostInv, Launched
  PROVE  tileCount \in Nat \ {0} /\ Blocks \in Nat \ {0} /\ Blocks <= MaxCores
         /\ Blocks <= tileCount
<1>1. tileCount \in Nat \ {0}
  BY TileCount DEF HostInv
<1> QED
  BY <1>1, Constants, SMT DEF Blocks

-----------------------------------------------------------------------------
(* The host and the cores keep to it.                                      *)

StructInv == HostInv /\ CoresInv

LEMMA StructInit == Init => StructInv
<1> SUFFICES ASSUME Init PROVE StructInv
  OBVIOUS
<1>1. HostInv
  BY Constants, SMT DEF Init, HostInv, Launched
<1>2. CoresInv
  BY SMT DEF Init, CoresInv
<1> QED
  BY <1>1, <1>2 DEF StructInv

\* A step of the host before the cores start leaves none.
LEMMA HostKeeps ==
  ASSUME StructInv, Route \/ Pad \/ CheckSequence
  PROVE  StructInv'
<1>1. core' = core /\ req' = req /\ core = <<>>
  BY DEF StructInv, HostInv, Launched, Route, Pad, CheckSequence
<1>2. CoresInv'
  BY <1>1 DEF StructInv, CoresInv
<1>3. CASE Route
  BY <1>1, <1>2, <1>3 DEF StructInv, HostInv, Launched, Route
<1>4. CASE Pad
  <2>1. AlignedCount \in Nat
    <3> DEFINE n == req.neurons + Alignment - 1
               q == n \div Alignment
    <3>0. req.neurons \in Nat
      BY NativePartitionAssumption DEF StructInv, HostInv
    <3>5. n \in Nat
      BY <3>0, Constants, SMT
    <3> HIDE DEF n
    <3>1. n \in Nat /\ q \in Int /\ n % Alignment \in 0 .. Alignment - 1
          /\ n = (Alignment * q) + (n % Alignment)
      BY <3>5, Constants, Division
    <3> HIDE DEF q
    <3>2. q >= 0
      <4>1. CASE q <= 0 - 1
        <5>1. Alignment * q <= 0 - Alignment
          BY <3>1, <4>1, Constants, SMT
        <5> QED
          BY <3>1, <5>1, Constants, SMT
      <4> QED
        BY <3>1, <4>1, SMT
    <3>3. q * Alignment \in Nat
      BY <3>1, <3>2, Constants, SMT
    <3> QED
      BY <3>3 DEF AlignedCount, n, q
  <2>2. (AlignedCount)' = AlignedCount
    BY <1>1 DEF AlignedCount
  <2> QED
    BY <1>1, <1>2, <1>4, <2>1, <2>2 DEF StructInv, HostInv, Launched, Pad
<1>5. CASE CheckSequence
  <2>1. (AlignedCount)' = AlignedCount
    BY <1>1 DEF AlignedCount
  <2> QED
    BY <1>1, <1>2, <1>5, <2>1 DEF StructInv, HostInv, Launched, CheckSequence
<1> QED
  BY <1>3, <1>4, <1>5

LEMMA TilingKeeps ==
  ASSUME StructInv, TilingFunc
  PROVE  StructInv'
<1>1. (AlignedCount)' = AlignedCount /\ req' = req /\ width' = width
  BY DEF AlignedCount, TilingFunc
<1>2. CASE TilingAccepts
  <2> DEFINE n == Blocks'
  <2>1. /\ core' = [b \in 0 .. n - 1 |-> [Idle EXCEPT !.tile = b]]
        /\ phase' = "running" /\ tileCount' = TilesOf(width)
    BY <1>2 DEF TilingFunc
  <2>2. HostInv'
    BY <1>1, <1>2, <2>1
    DEF StructInv, HostInv, Launched, TilingFunc, TilingAccepts, TilesOf
  <2>3. CoresInv'
    <3>0. TilesOf(width) \in Nat \ {0} /\ req.steps \in Nat
      <4>1. width \in Nat \ {0} /\ req.steps \in Nat
        BY SMT DEF StructInv, HostInv, TilingFunc
      <4> QED
        BY <4>1, TileCount
    <3>1. n \in Nat
      BY <2>1, <3>0, Constants, SMT DEF Blocks
    <3> HIDE DEF n
    <3>2. \A b \in 0 .. n - 1 : core'[b] = [at |-> "tile", tile |-> b, time |-> 0, voltage |-> <<>>]
      BY <2>1 DEF Idle
    <3>3. DOMAIN core' = 0 .. n - 1 /\ 0 \in 0 .. req.steps /\ 0 .. n - 1 \subseteq Nat
      BY <2>1, <3>0, <3>1, SMT
    <3>4. core' = [b \in DOMAIN core' |-> core'[b]]
      BY <2>1
    <3>5. ASSUME NEW b \in DOMAIN core'
          PROVE  /\ core'[b] = Fields(core'[b])
                 /\ core'[b].at \in {"tile", "time"}
                 /\ core'[b].tile \in Nat
                 /\ core'[b].time \in 0 .. req.steps
      BY <3>2, <3>3 DEF Fields
    <3> QED
      BY <1>1, <3>4, <3>5 DEF CoresInv
  <2> QED
    BY <2>2, <2>3 DEF StructInv
<1>3. CASE ~TilingAccepts
  <2>1. phase' = "raised" /\ core' = core /\ core = <<>>
    BY <1>3 DEF TilingFunc, StructInv, HostInv, Launched
  <2> QED
    BY <1>1, <2>1 DEF StructInv, HostInv, Launched, CoresInv
<1> QED
  BY <1>2, <1>3

\* What a core is at.
LEMMA CoreFacts ==
  ASSUME StructInv, NEW b \in DOMAIN core
  PROVE  /\ Launched /\ b \in 0 .. Blocks - 1
         /\ core = [c \in DOMAIN core |-> core[c]]
         /\ core[b] = Fields(core[b])
         /\ core[b].at \in {"tile", "time"}
         /\ core[b].tile \in Nat
         /\ core[b].time \in 0 .. req.steps
         /\ req.steps \in Nat /\ width \in Nat \ {0}
         /\ Blocks \in Nat \ {0}
<1>1. Launched
  BY DEF StructInv, HostInv
<1>2. Blocks \in Nat \ {0}
  BY <1>1, Tiles DEF StructInv
<1> QED
  BY <1>1, <1>2 DEF StructInv, HostInv, CoresInv

\* The steps of the cores.
LEMMA CoreKeeps ==
  ASSUME StructInv, NEW b \in DOMAIN core, Step(b)
  PROVE  StructInv'
<1>1. UNCHANGED <<req, phase, width, tileCount>>
  BY DEF Step, LoadTile, TimeStep, StoreFinal
<1>2. (AlignedCount)' = AlignedCount /\ Blocks' = Blocks /\ phase = "running"
  BY <1>1 DEF AlignedCount, Blocks, Step, LoadTile, TimeStep, StoreFinal
<1>3. /\ DOMAIN core' = DOMAIN core /\ core' = [c \in DOMAIN core |-> core'[c]]
      /\ \A c \in DOMAIN core \ {b} : core'[c] = core[c]
      /\ core'[b] = Fields(core'[b])
      /\ core'[b].at \in {"tile", "time"}
      /\ core'[b].tile \in Nat
      /\ core'[b].time \in 0 .. req.steps
  <2>0. CoresInv /\ 0 \in 0 .. req.steps
    BY CoreFacts DEF StructInv
  <2>1. CASE LoadTile(b)
    <3> DEFINE loaded == [j \in Lanes(b) |->
                            IF TileBegin(core[b].tile) + j < width
                            THEN Voltage(TileBegin(core[b].tile) + j, 0) ELSE Garbage]
    <3>1. /\ DOMAIN core' = DOMAIN core /\ core' = [c \in DOMAIN core |-> core'[c]]
          /\ \A c \in DOMAIN core \ {b} : core'[c] = core[c]
          /\ core'[b] = [at |-> "time", tile |-> core[b].tile, time |-> 0,
                         voltage |-> loaded]
      BY <2>0, <2>1, LoadTileCores
    <3> HIDE DEF loaded
    <3>2. core[b].tile \in Nat
      BY CoreFacts
    <3> QED
      BY <2>0, <3>1, <3>2 DEF Fields
  <2>2. CASE TimeStep(b)
    <3> DEFINE t == core[b].time
               charged == [j \in Lanes(b) |->
                 IF core[b].voltage[j] = Voltage(InputNeuron((t * width + TileBegin(core[b].tile)) + j), t)
                    /\ InputTime((t * width + TileBegin(core[b].tile)) + j) = t
                   THEN Voltage(InputNeuron((t * width + TileBegin(core[b].tile)) + j), t + 1) ELSE Garbage]
    <3>1. /\ DOMAIN core' = DOMAIN core /\ core' = [c \in DOMAIN core |-> core'[c]]
          /\ \A c \in DOMAIN core \ {b} : core'[c] = core[c]
          /\ core'[b] = [at |-> core[b].at, tile |-> core[b].tile, time |-> t + 1,
                         voltage |-> charged]
      BY <2>0, <2>2, TimeStepCores
    <3> HIDE DEF charged
    <3>2. t + 1 \in 0 .. req.steps
      <4>1. t \in 0 .. req.steps /\ req.steps \in Nat
        BY CoreFacts
      <4>2. t < req.steps
        BY <2>2 DEF TimeStep
      <4> HIDE DEF t
      <4> QED
        BY <4>1, <4>2, SMT
    <3> QED
      BY <3>1, <3>2, CoreFacts DEF Fields
  <2>3. CASE StoreFinal(b)
    <3>1. core[b].tile + Blocks \in Int
      BY CoreFacts
    <3>2. (core[b].tile + Blocks) % Word \in Nat
      <4> DEFINE n == core[b].tile + Blocks
      <4>1. Word \in Nat \ {0}
        BY Constants
      <4>2. n \in Int
        BY <3>1
      <4> HIDE DEF n
      <4>3. n % Word \in 0 .. Word - 1
        BY <4>1, <4>2, Division
      <4>4. n % Word \in Nat
        BY <4>1, <4>3, SMT
      <4> QED
        BY <4>4 DEF n
    <3> QED
      <4> DEFINE next == (core[b].tile + Blocks) % Word
      <4>1. /\ DOMAIN core' = DOMAIN core /\ core' = [c \in DOMAIN core |-> core'[c]]
            /\ \A c \in DOMAIN core \ {b} : core'[c] = core[c]
            /\ core'[b] = [at |-> "tile", tile |-> next, time |-> core[b].time,
                           voltage |-> core[b].voltage]
        BY <2>0, <2>3, StoreFinalCores
      <4>2. next \in Nat /\ core[b].time \in 0 .. req.steps
        BY <3>2, CoreFacts
      <4> HIDE DEF next
      <4> QED
        BY <4>1, <4>2 DEF Fields
  <2> QED
    BY <2>1, <2>2, <2>3 DEF Step
<1>4. HostInv'
  BY <1>1, <1>2, <1>3 DEF StructInv, HostInv, Launched
<1>5. CoresInv'
  BY <1>1, <1>3 DEF StructInv, CoresInv
<1> QED
  BY <1>4, <1>5 DEF StructInv

LEMMA CropKeeps ==
  ASSUME StructInv, Crop
  PROVE  StructInv'
  BY DEF Crop, StructInv, HostInv, CoresInv, Launched, AlignedCount, Blocks

LEMMA StutterKeeps ==
  ASSUME StructInv, UNCHANGED vars
  PROVE  StructInv'
  BY DEF vars, memory, StructInv, HostInv, CoresInv, Launched, AlignedCount, Blocks

LEMMA StructStep ==
  ASSUME StructInv, [Next]_vars
  PROVE  StructInv'
<1>1. CASE Route \/ Pad \/ CheckSequence
  BY <1>1, HostKeeps
<1>2. CASE TilingFunc
  BY <1>2, TilingKeeps
<1>3. CASE \E b \in DOMAIN core : Step(b)
  BY <1>3, CoreKeeps
<1>4. CASE Crop
  BY <1>4, CropKeeps
<1>5. CASE UNCHANGED vars
  BY <1>5, StutterKeeps
<1> QED
  BY <1>1, <1>2, <1>3, <1>4, <1>5 DEF Next

LEMMA StructHolds == Spec => []StructInv
<1>1. StructInv /\ [Next]_vars => StructInv'
  BY StructStep
<1> QED
  BY StructInit, <1>1, PTL DEF Spec

-----------------------------------------------------------------------------
(* Alignment.                                                              *)

LEMMA AlignedOf ==
  ASSUME StructInv
  PROVE  TransfersAligned
<1> SUFFICES ASSUME NEW b \in DOMAIN core
             PROVE  /\ TileBegin(core[b].tile) % Alignment = 0
                    /\ TileSize(core[b].tile) % Alignment = 0
                    /\ (core[b].time * width) % Alignment = 0
  BY DEF TransfersAligned
<1> DEFINE k == core[b].tile
           t == core[b].time
           begin == TileBegin(k)
<1>1. k \in Nat /\ t \in Int /\ width \in Nat /\ Launched /\ width % Alignment = 0
  BY SMT DEF StructInv, CoresInv, HostInv
<1> HIDE DEF k, t
<1>2. Word % Alignment = 0
  <2>1. TileLength * (Word \div TileLength) = Word /\ Word \div TileLength \in Int
    <3>1. Word = (TileLength * (Word \div TileLength)) + (Word % TileLength)
          /\ Word \div TileLength \in Int
      BY Constants, Division, SMT
    <3> QED
      BY <3>1, Constants, SMT
  <2>2. TileLength \in Int
    BY Constants, SMT
  <2>3. (TileLength * (Word \div TileLength)) % Alignment = 0
    BY <2>1, <2>2, Constants, Multiples
  <2> QED
    BY <2>1, <2>3
<1>3. begin % Alignment = 0 /\ begin \in Int
  <2>1. TileLength * k = k * TileLength /\ k * TileLength \in Int /\ TileLength \in Int /\ k \in Int
    BY <1>1, Constants, SMT
  <2>2. (TileLength * k) % Alignment = 0
    BY <2>1, Constants, Multiples
  <2>3. ((k * TileLength) % Word) % Alignment = 0
    BY <1>2, <2>1, <2>2, Constants, RemainderOfMultiple
  <2>4. (k * TileLength) % Word \in Int
    BY <2>1, Constants, Division, SMT
  <2> QED
    BY <2>3, <2>4 DEF TileBegin
<1>4. TileSize(k) % Alignment = 0
  <2> HIDE DEF begin
  <2>1. width - begin \in Int /\ width \in Int
    BY <1>1, <1>3, SMT
  <2>2. (width - begin) % Alignment = 0
    BY <1>1, <1>3, <2>1, Constants, Multiples
  <2>3. ((width - begin) % Word) % Alignment = 0
    BY <1>2, <2>1, <2>2, Constants, RemainderOfMultiple
  <2> QED
    BY <2>3, Constants DEF TileSize, begin
<1>5. (t * width) % Alignment = 0
  <2>1. width * t = t * width /\ width \in Int
    BY <1>1, SMT
  <2>2. (width * t) % Alignment = 0
    BY <1>1, <2>1, Constants, Multiples
  <2> QED
    BY <2>1, <2>2
<1> QED
  BY <1>3, <1>4, <1>5 DEF k, t

\* Every transfer of every core begins and ends on a block of bytes, whatever
\* the tile length, as long as blocks divide tiles and tiles divide a word
\* (the tiles of a core and the offsets of its rows, even past a wrap).
THEOREM AlignedTransfers == Spec => []TransfersAligned
  BY StructHolds, AlignedOf, PTL

-----------------------------------------------------------------------------
(* Where a tile lies, if no row comes close to the end of a word: of the   *)
(* real constants, rows of at most 2^32 - 4096 values.                     *)

RowsFitWord ==
  \A n \in 0 .. MaxNeurons :
    LET row == ((n + Alignment - 1) \div Alignment) * Alignment
    IN  row + TileLength <= Word /\ row + MaxCores <= Word

TileOf(i) == i \div TileLength

LEMMA Fits ==
  ASSUME RowsFitWord, StructInv, Launched
  PROVE  width \in Nat \ {0} /\ width + TileLength <= Word /\ width + MaxCores <= Word
<1>1. width = AlignedCount /\ req.neurons \in 0 .. MaxNeurons /\ width \in Nat \ {0}
  BY SMT DEF StructInv, HostInv
<1> QED
  BY <1>1 DEF RowsFitWord, AlignedCount

\* Tiles of a row start within it, and there are no more tiles than values.
LEMMA TileStarts ==
  ASSUME NEW w \in Nat \ {0}, NEW k \in Nat, k < TilesOf(w)
  PROVE  k * TileLength \in 0 .. w - 1 /\ k < w
<1> DEFINE n == w + TileLength - 1
           q == n \div TileLength
           b == TileLength * k
           e == TileLength * q
<1>1. n \in Int /\ TileLength \in Nat \ {0}
  BY Constants, SMT
<1> HIDE DEF n
<1>2. q \in Int /\ n % TileLength \in 0 .. TileLength - 1 /\ n = e + (n % TileLength)
  BY <1>1, Division
<1>3. k + 1 <= q
  BY <1>2, SMT DEF TilesOf, q, n
<1> HIDE DEF q
<1>4. b + TileLength <= e /\ b \in Int /\ e \in Int
  <2>1. TileLength * (q - (k + 1)) >= 0
    BY <1>1, <1>2, <1>3, SMT
  <2>2. TileLength * (q - (k + 1)) = e - (b + TileLength) /\ b \in Int /\ e \in Int
    BY <1>1, <1>2, SMT
  <2> HIDE DEF b, e
  <2> QED
    BY <1>1, <1>2, <2>1, <2>2, SMT
<1>5. b >= k /\ b = k * TileLength
  BY <1>1, SMT
<1> HIDE DEF b, e
<1>6. b < w
  BY <1>1, <1>2, <1>4, SMT DEF n
<1> QED
  BY <1>4, <1>5, <1>6, SMT

\* The index arithmetic of a tile does not wrap.
LEMMA Geometry ==
  ASSUME RowsFitWord, StructInv, Launched, NEW k \in Nat, k < tileCount
  PROVE  /\ TileBegin(k) = k * TileLength
         /\ TileBegin(k) \in 0 .. width - 1
         /\ TileSize(k) \in 1 .. TileLength
         /\ TileBegin(k) + TileSize(k) <= width
         /\ TileSize(k) = TileLength \/ TileBegin(k) + TileSize(k) = width
         /\ k < width
<1> DEFINE b == k * TileLength
<1>1. /\ width \in Nat \ {0} /\ width + TileLength <= Word
      /\ TileLength \in Nat \ {0} /\ Word \in Nat \ {0}
  BY Fits, Constants
<1>2. b \in 0 .. width - 1 /\ k < width
  BY <1>1, TileStarts DEF StructInv, HostInv
<1> HIDE DEF b
<1>3. b % Word = b /\ (b + TileLength) % Word = b + TileLength
      /\ (width - b) % Word = width - b
  <2>1. b \in 0 .. Word - 1 /\ b + TileLength \in 0 .. Word - 1
        /\ width - b \in 0 .. Word - 1
    BY <1>1, <1>2, SMT
  <2> QED
    BY <1>1, <2>1, Small
<1>4. TileBegin(k) = b
  BY <1>3 DEF TileBegin, b
<1>5. TileSize(k) = IF b + TileLength <= width THEN TileLength ELSE width - b
  BY <1>3, <1>4 DEF TileSize
<1> HIDE DEF TileSize
<1>6. /\ TileSize(k) \in 1 .. TileLength
      /\ b + TileSize(k) <= width
      /\ TileSize(k) = TileLength \/ b + TileSize(k) = width
  BY <1>1, <1>2, <1>5, SMT
<1> QED
  BY <1>2, <1>4, <1>6 DEF b

\* The values of a tile in a row are the addresses of that row and tile.
LEMMA Place ==
  ASSUME RowsFitWord, StructInv, Launched, NEW k \in Nat, k < tileCount,
         NEW t \in Nat, NEW a \in Int
  PROVE  LET offset == t * width + TileBegin(k)
         IN  /\ a - offset \in 0 .. TileSize(k) - 1
                <=> InputTime(a) = t /\ TileOf(InputNeuron(a)) = k
             /\ a - offset \in 0 .. TileSize(k) - 1
                => InputNeuron(a) = TileBegin(k) + (a - offset)
<1> DEFINE row == width * t
           c == a - row
           begin == TileLength * k
           size == TileSize(k)
<1>1. /\ begin \in Nat /\ size \in 1 .. TileLength /\ begin + size <= width
      /\ size = TileLength \/ begin + size = width
      /\ TileBegin(k) = begin
      /\ width \in Nat \ {0} /\ TileLength \in Nat \ {0}
  <2>1. k * TileLength = TileLength * k
    BY Constants, SMT
  <2>2. k * TileLength \in Nat
    BY Constants, SMT
  <2> QED
    BY <2>1, <2>2, Geometry, Fits, Constants
<1>2. row = t * width /\ row \in Int
  BY <1>1, SMT
<1> HIDE DEF size
<1>3. InputTime(a) = t <=> c \in 0 .. width - 1
  BY <1>1, Interval DEF InputTime
<1>4. InputTime(a) = t => InputNeuron(a) = c
  <2>1. a = (width * (a \div width)) + (a % width) /\ a % width \in Int
    BY <1>1, Division, SMT
  <2> SUFFICES ASSUME a \div width = t PROVE a % width = c
    BY DEF InputTime, InputNeuron
  <2>2. a = row + (a % width)
    BY <2>1
  <2> HIDE DEF row
  <2> QED
    BY <1>2, <2>1, <2>2, SMT
<1>5. c \in Int
  BY <1>2, SMT
<1> HIDE DEF row, c
<1>6. TileOf(c) = k <=> c - begin \in 0 .. TileLength - 1
  BY <1>1, <1>5, Interval DEF TileOf
<1> HIDE DEF begin
<1>7. c - begin \in 0 .. size - 1
      <=> c \in 0 .. width - 1 /\ c - begin \in 0 .. TileLength - 1
  BY <1>1, <1>5, SMT
<1>8. a - ((t * width) + TileBegin(k)) = c - begin
  BY <1>1, <1>2, SMT DEF c
<1>9. c = begin + (c - begin)
  BY <1>1, <1>5, SMT
<1> QED
  BY <1>1, <1>3, <1>4, <1>6, <1>7, <1>8, <1>9 DEF size

\* A value of a row is in one of its tiles.
LEMMA TileOfValue ==
  ASSUME NEW w \in Nat \ {0}, NEW i \in 0 .. w - 1
  PROVE  TileOf(i) \in Nat /\ TileOf(i) < TilesOf(w)
<1> DEFINE n == w + TileLength - 1
           q == n \div TileLength
           k == i \div TileLength
<1>1. n \in Int /\ TileLength \in Nat \ {0} /\ i \in Int
  BY Constants, SMT
<1> HIDE DEF n
<1>2. q \in Int /\ n % TileLength \in 0 .. TileLength - 1
      /\ n = (TileLength * q) + (n % TileLength)
  BY <1>1, Division
<1>3. k \in Int /\ i % TileLength \in 0 .. TileLength - 1
      /\ i = (TileLength * k) + (i % TileLength)
  BY <1>1, Division
<1> HIDE DEF q, k
<1>4. k >= 0
  <2>1. CASE k <= 0 - 1
    <3>1. TileLength * k <= 0 - TileLength
      BY <1>1, <1>3, <2>1, SMT
    <3> QED
      BY <1>1, <1>3, <3>1, SMT
  <2> QED
    BY <1>3, <2>1, SMT
<1>5. k < q
  <2>1. CASE q <= k
    <3>1. TileLength * (k - q) >= 0
      BY <1>1, <1>2, <1>3, <2>1, SMT
    <3>2. TileLength * (k - q) = (TileLength * k) - (TileLength * q)
          /\ TileLength * k \in Int /\ TileLength * q \in Int
      BY <1>1, <1>2, <1>3, SMT
    <3> QED
      BY <1>1, <1>2, <1>3, <3>1, <3>2, SMT DEF n
  <2> QED
    BY <1>2, <1>3, <2>1, SMT
<1> QED
  BY <1>3, <1>4, <1>5 DEF TileOf, TilesOf, k, q, n

-----------------------------------------------------------------------------
(* What has been written.  Tile k belongs to core k % Blocks, which takes   *)
(* its tiles in increasing order and the rows of a tile in order of time.   *)

Owner(k) == k % Blocks
Past(k) == core[Owner(k)].tile > k
Done(k, t) ==
  \/ Past(k)
  \/ core[Owner(k)].tile = k /\ core[Owner(k)].at = "time" /\ core[Owner(k)].time > t

Written(v) == [value |-> v, writes |-> 1]

DealtCore(b) ==
  /\ core[b].tile % Blocks = b
  /\ core[b].at = "time" =>
       /\ core[b].tile < tileCount
       /\ core[b].voltage =
            [j \in Lanes(b) |-> Voltage(TileBegin(core[b].tile) + j, core[b].time)]
Dealt == \A b \in DOMAIN core : DealtCore(b)

Addresses == 0 .. (req.steps * width) - 1
DoneAt(a) == Done(TileOf(InputNeuron(a)), InputTime(a))
SpikeRows ==
  spike = [a \in Addresses |->
             IF DoneAt(a)
             THEN Written(Voltage(InputNeuron(a), InputTime(a) + 1)) ELSE Unwritten]
FinalRow ==
  final = [a \in 0 .. width - 1 |->
             IF Past(TileOf(a)) THEN Written(Voltage(a, req.steps)) ELSE Unwritten]

DataInv ==
  /\ ~stray
  /\ Launched => Dealt /\ SpikeRows /\ FinalRow
  /\ ~Launched => spike = <<>> /\ final = <<>>
  /\ phase = "returned" => \A b \in DOMAIN core : Finished(b)

\* A tile has an owner.
LEMMA Owned ==
  ASSUME StructInv, Launched, NEW k \in Nat
  PROVE  Owner(k) \in DOMAIN core
<1>1. Blocks \in Nat \ {0} /\ DOMAIN core = 0 .. Blocks - 1 /\ k \in Int
  BY Tiles, SMT DEF StructInv, HostInv
<1> HIDE DEF Blocks
<1> QED
  BY <1>1, Division DEF Owner

\* An address is one neuron's at one time, in one tile.
LEMMA Address ==
  ASSUME StructInv, Launched, NEW a \in Addresses
  PROVE  /\ a \in Int
         /\ InputNeuron(a) \in 0 .. width - 1
         /\ InputTime(a) \in 0 .. req.steps - 1
         /\ TileOf(InputNeuron(a)) \in Nat /\ TileOf(InputNeuron(a)) < tileCount
<1> DEFINE q == a \div width
           r == a % width
           end == req.steps * width
<1>1. width \in Nat \ {0} /\ req.steps \in Nat /\ tileCount = TilesOf(width)
  BY SMT DEF StructInv, HostInv
<1>2. end \in Int /\ a \in 0 .. end - 1 /\ a \in Int
  BY <1>1, SMT DEF Addresses
<1>3. q \in Int /\ r \in 0 .. width - 1 /\ a = (width * q) + r
  BY <1>1, <1>2, Division
<1> HIDE DEF q, r
<1>4. q >= 0
  <2>1. CASE q <= 0 - 1
    <3>1. width * q <= 0 - width
      BY <1>1, <1>3, <2>1, SMT
    <3> HIDE DEF end
    <3> QED
      BY <1>1, <1>2, <1>3, <3>1, SMT
  <2> QED
    BY <1>3, <2>1, SMT
<1>5. q < req.steps
  <2>1. CASE q >= req.steps
    <3>1. width * (q - req.steps) >= 0
      BY <1>1, <1>3, <2>1, SMT
    <3>2. width * (q - req.steps) = (width * q) - end /\ width * q \in Int
      BY <1>1, <1>3, SMT
    <3> HIDE DEF end
    <3> QED
      BY <1>1, <1>2, <1>3, <3>1, <3>2, SMT
  <2> QED
    BY <1>1, <1>3, <2>1, SMT
<1>6. TileOf(r) \in Nat /\ TileOf(r) < tileCount
  BY <1>1, <1>3, TileOfValue
<1> HIDE DEF end
<1> QED
  BY <1>1, <1>2, <1>3, <1>4, <1>5, <1>6, SMT DEF InputNeuron, InputTime, q, r

-----------------------------------------------------------------------------
(* How the steps of a core change what is done.                            *)

\* Where the steps take a core.
LEMMA Moves ==
  ASSUME StructInv, NEW b \in DOMAIN core
  PROVE  /\ LoadTile(b) => /\ core[b].at = "tile"
                           /\ core'[b].at = "time" /\ core'[b].tile = core[b].tile
                           /\ core'[b].time = 0
         /\ TimeStep(b) => /\ core[b].at = "time"
                           /\ core'[b].at = "time" /\ core'[b].tile = core[b].tile
                           /\ core'[b].time = core[b].time + 1
         /\ StoreFinal(b) => /\ core[b].at = "time" /\ core[b].time = req.steps
                             /\ core'[b].at = "tile"
                             /\ core'[b].tile = (core[b].tile + Blocks) % Word
<1>0. CoresInv
  BY DEF StructInv
<1>1. ASSUME LoadTile(b)
      PROVE  /\ core[b].at = "tile"
             /\ core'[b].at = "time" /\ core'[b].tile = core[b].tile /\ core'[b].time = 0
  <2>1. PICK v : core'[b] = [at |-> "time", tile |-> core[b].tile, time |-> 0, voltage |-> v]
    BY <1>0, <1>1, LoadTileCores, Zenon
  <2>2. core[b].at = "tile"
    BY <1>1 DEF LoadTile
  <2> QED
    BY <2>1, <2>2
<1>2. ASSUME TimeStep(b)
      PROVE  /\ core[b].at = "time"
             /\ core'[b].at = "time" /\ core'[b].tile = core[b].tile
             /\ core'[b].time = core[b].time + 1
  <2>1. PICK v : core'[b] = [at |-> core[b].at, tile |-> core[b].tile,
                             time |-> core[b].time + 1, voltage |-> v]
    BY <1>0, <1>2, TimeStepCores, Zenon
  <2>2. core[b].at = "time"
    BY <1>2 DEF TimeStep
  <2> QED
    BY <2>1, <2>2
<1>3. ASSUME StoreFinal(b)
      PROVE  /\ core[b].at = "time" /\ core[b].time = req.steps
             /\ core'[b].at = "tile"
             /\ core'[b].tile = (core[b].tile + Blocks) % Word
  <2>1. PICK v : core'[b] = [at |-> "tile", tile |-> (core[b].tile + Blocks) % Word,
                             time |-> core[b].time, voltage |-> v]
    BY <1>0, <1>3, StoreFinalCores, Zenon
  <2>2. core[b].at = "time" /\ core[b].time = req.steps
    BY <1>3 DEF StoreFinal
  <2> QED
    BY <2>1, <2>2
<1> QED
  BY <1>1, <1>2, <1>3

LEMMA DoneLoad ==
  ASSUME StructInv, NEW b \in DOMAIN core, LoadTile(b), NEW k \in Nat, NEW t \in Nat
  PROVE  (Past(k)' <=> Past(k)) /\ (Done(k, t)' <=> Done(k, t))
<1> DEFINE o == Owner(k)
<1>1. Launched /\ Blocks' = Blocks /\ o \in DOMAIN core
  BY CoreFacts, Owned DEF LoadTile, Blocks
<1>2. Owner(k)' = o
  BY <1>1 DEF Owner
<1> HIDE DEF o
<1>3. CASE o = b
  <2>1. /\ core'[o].tile = core[o].tile /\ core'[o].at = "time" /\ core'[o].time = 0
        /\ core[o].at = "tile"
    BY <1>3, Moves
  <2>2. ~(0 > t)
    BY SMT
  <2> QED
    BY <1>2, <2>1, <2>2 DEF Past, Done, o
<1>4. CASE o # b
  <2>1. core'[o] = core[o]
    BY <1>1, <1>4, LoadTileCores DEF StructInv
  <2> QED
    BY <1>2, <2>1 DEF Past, Done, o
<1> QED
  BY <1>3, <1>4

LEMMA DoneTime ==
  ASSUME StructInv, Dealt, NEW b \in DOMAIN core, TimeStep(b), NEW k \in Nat, NEW t \in Nat
  PROVE  /\ Past(k)' <=> Past(k)
         /\ Done(k, t)' <=> Done(k, t) \/ (k = core[b].tile /\ t = core[b].time)
         /\ k = core[b].tile /\ t = core[b].time => ~Done(k, t)
<1> DEFINE o == Owner(k)
           n == core[b].time
<1>1. Launched /\ Blocks' = Blocks /\ o \in DOMAIN core /\ n \in Int /\ core[b].tile \in Nat
  <2>1. n \in 0 .. req.steps /\ core[b].tile \in Nat /\ Launched
    BY CoreFacts
  <2>2. Blocks' = Blocks
    BY DEF TimeStep, Blocks
  <2> QED
    BY <2>1, <2>2, Owned
<1>2. Owner(k)' = o
  BY <1>1 DEF Owner
<1>3. k = core[b].tile => o = b
  BY DEF Dealt, DealtCore, Owner
<1> HIDE DEF o, n
<1>4. CASE o = b
  <2>1. /\ core'[o].tile = core[o].tile /\ core'[o].at = core[o].at /\ core'[o].time = n + 1
        /\ core[o].at = "time" /\ core[o].time = n
    BY <1>4, Moves DEF n
  <2>2. (n + 1 > t <=> n > t \/ t = n) /\ ~(n > n)
    BY <1>1, SMT
  <2>3. ~(core[b].tile > core[b].tile)
    BY <1>1, SMT
  <2> QED
    BY <1>2, <1>4, <2>1, <2>2, <2>3 DEF Past, Done, o, n
<1>5. CASE o # b
  <2>1. core'[o] = core[o]
    BY <1>1, <1>5, TimeStepCores DEF StructInv
  <2> QED
    BY <1>2, <1>3, <1>5, <2>1 DEF Past, Done, o
<1> QED
  BY <1>4, <1>5

\* The counter of tiles does not wrap.
LEMMA NextTile ==
  ASSUME RowsFitWord, StructInv, Dealt, NEW b \in DOMAIN core, StoreFinal(b)
  PROVE  (core[b].tile + Blocks) % Word = core[b].tile + Blocks
<1> DEFINE m == core[b].tile
<1>1. m \in Nat /\ Launched /\ Blocks \in Nat /\ Blocks <= MaxCores
  BY CoreFacts, Tiles DEF StructInv
<1>2. m < tileCount
  BY DEF Dealt, DealtCore, StoreFinal
<1> HIDE DEF m
<1>3. m < width /\ width \in Nat /\ width + MaxCores <= Word
  BY <1>1, <1>2, Geometry, Fits
<1>4. m + Blocks \in 0 .. Word - 1
  BY <1>1, <1>3, Constants, SMT
<1> QED
  BY <1>4, Small, Constants DEF m

LEMMA DoneFinal ==
  ASSUME RowsFitWord, StructInv, Dealt, NEW b \in DOMAIN core, StoreFinal(b),
         NEW k \in Nat, NEW t \in 0 .. req.steps - 1
  PROVE  /\ Past(k)' <=> Past(k) \/ k = core[b].tile
         /\ k = core[b].tile => ~Past(k)
         /\ Done(k, t)' <=> Done(k, t)
<1> DEFINE o == Owner(k)
           m == core[b].tile
<1>1. /\ Launched /\ Blocks' = Blocks /\ o \in DOMAIN core /\ m \in Nat
      /\ Blocks \in Nat \ {0} /\ req.steps \in Nat
  BY CoreFacts, Owned DEF StoreFinal, Blocks
<1>2. Owner(k)' = o
  BY <1>1 DEF Owner
<1>3. (k = m => o = b) /\ (o = b => k % Blocks = m % Blocks)
  BY DEF Dealt, DealtCore, Owner
<1> HIDE DEF o
<1>4. CASE o = b
  <2>1. /\ core'[o].tile = m + Blocks /\ core'[o].at = "tile"
        /\ core[o].tile = m /\ core[o].at = "time" /\ core[o].time = req.steps
    <3>1. core'[b].tile = (m + Blocks) % Word /\ core'[b].at = "tile"
      BY Moves
    <3>2. (m + Blocks) % Word = m + Blocks
      BY NextTile
    <3> QED
      BY <1>4, <3>1, <3>2 DEF StoreFinal
  <2> HIDE DEF m
  <2>2. k < m + Blocks => k <= m
    <3>1. Blocks \in Nat \ {0} /\ m \in Int /\ k \in Int /\ m % Blocks = k % Blocks
      BY <1>1, <1>3, <1>4
    <3> HIDE DEF Blocks
    <3> QED
      BY <3>1, SameRemainder
  <2>3. m + Blocks > k <=> m > k \/ k = m
    BY <1>1, <2>2, SMT
  <2>4. req.steps > t /\ ~(m > m)
    BY <1>1, SMT
  <2>5. Past(k) <=> m > k
    BY <2>1 DEF Past, o
  <2>6. Done(k, t) <=> m > k \/ k = m
    BY <2>1, <2>4, <2>5 DEF Done, o
  <2>7. Past(k)' <=> m + Blocks > k
    BY <1>2, <2>1 DEF Past
  <2>8. Done(k, t)' <=> m + Blocks > k
    BY <1>2, <2>1, <2>7 DEF Done
  <2> QED
    BY <2>3, <2>4, <2>5, <2>6, <2>7, <2>8 DEF m
<1>5. CASE o # b
  <2>1. core'[o] = core[o]
    BY <1>1, <1>5, StoreFinalCores DEF StructInv
  <2> QED
    BY <1>2, <1>3, <1>5, <2>1 DEF Past, Done, o
<1> QED
  BY <1>4, <1>5

\* An address keeps its neuron and time.
LEMMA Rigid ==
  ASSUME StructInv, Launched, NEW a \in Addresses, UNCHANGED <<req, width, tileCount>>
  PROVE  \E k \in Nat, t \in 0 .. req.steps - 1 :
           /\ k = TileOf(InputNeuron(a)) /\ t = InputTime(a) /\ k < tileCount
           /\ DoneAt(a) <=> Done(k, t)
           /\ DoneAt(a)' <=> Done(k, t)'
<1>1. PICK k \in Nat, t \in 0 .. req.steps - 1 :
        k = TileOf(InputNeuron(a)) /\ t = InputTime(a) /\ k < tileCount
  BY Address
<1>2. k = TileOf(InputNeuron(a))' /\ t = InputTime(a)'
  BY <1>1 DEF InputNeuron, InputTime
<1>3. DoneAt(a) <=> Done(k, t)
  BY <1>1 DEF DoneAt
<1>4. DoneAt(a)' <=> Done(k, t)'
  BY <1>2 DEF DoneAt, Done, Past, Owner
<1> QED
  BY <1>1, <1>3, <1>4

\* The values of a tile after a step of time, and where they go.
LEMMA Charged ==
  ASSUME RowsFitWord, StructInv, Dealt, NEW b \in DOMAIN core, TimeStep(b),
         NEW j \in Lanes(b)
  PROVE  LET t == core[b].time
             offset == t * width + TileBegin(core[b].tile)
         IN  /\ offset + j \in Addresses
             /\ InputNeuron(offset + j) = TileBegin(core[b].tile) + j
             /\ InputTime(offset + j) = t
             /\ core[b].voltage[j] = Voltage(InputNeuron(offset + j), t)
<1> DEFINE k == core[b].tile
           t == core[b].time
           begin == TileBegin(k)
           row == t * width
           a == (row + begin) + j
<1>1. /\ k \in Nat /\ t \in Nat /\ Launched /\ width \in Nat \ {0} /\ req.steps \in Nat
      /\ t < req.steps /\ core[b].at = "time"
  <2>1. t < req.steps /\ core[b].at = "time"
    BY DEF TimeStep
  <2>2. t \in 0 .. req.steps
    BY CoreFacts
  <2> QED
    BY <2>1, <2>2, CoreFacts
<1>2. /\ k < tileCount
      /\ core[b].voltage = [i \in Lanes(b) |-> Voltage(begin + i, t)]
  BY <1>1 DEF Dealt, DealtCore
<1> HIDE DEF k, t
<1>3. begin \in 0 .. width - 1 /\ TileSize(k) \in 1 .. TileLength /\ begin + TileSize(k) <= width
  BY <1>1, <1>2, Geometry
<1>4. row \in Nat /\ row + width <= req.steps * width /\ req.steps * width \in Int
  <2>1. (req.steps - (t + 1)) * width >= 0
    BY <1>1, SMT
  <2>2. (req.steps - (t + 1)) * width = (req.steps * width) - (row + width)
        /\ req.steps * width \in Int /\ row \in Nat
    BY <1>1, SMT
  <2> HIDE DEF row
  <2> QED
    BY <1>1, <2>1, <2>2, SMT
<1>5. j \in 0 .. TileSize(k) - 1
  BY DEF Lanes, k
<1> HIDE DEF begin, row
<1>6. TileSize(k) \in Int
  BY <1>3, Constants, SMT
<1>7. j \in Int /\ j >= 0 /\ j < TileSize(k)
  BY <1>5, <1>6, SMT
<1>8. a \in Int /\ a - (row + begin) = j
  BY <1>1, <1>3, <1>4, <1>7, SMT
<1>9. InputTime(a) = t /\ InputNeuron(a) = begin + j
  <2>1. a - (t * width + TileBegin(k)) \in 0 .. TileSize(k) - 1
    BY <1>5, <1>8 DEF row, begin
  <2>2. InputTime(a) = t /\ InputNeuron(a) = TileBegin(k) + (a - (t * width + TileBegin(k)))
    BY <1>1, <1>2, <1>8, <2>1, Place
  <2> QED
    BY <1>8, <2>2 DEF row, begin
<1>10. a \in 0 .. (req.steps * width) - 1
  <2> DEFINE end == req.steps * width
  <2>1. row + width <= end /\ end \in Int
    BY <1>4
  <2> HIDE DEF end
  <2>2. a \in 0 .. end - 1
    BY <1>1, <1>3, <1>4, <1>6, <1>7, <2>1, SMT
  <2> QED
    BY <2>2 DEF end
<1>11. core[b].voltage[j] = Voltage(InputNeuron(a), t)
  BY <1>2, <1>9
<1> QED
  BY <1>9, <1>10, <1>11 DEF Addresses, k, t, begin, row

\* The other cores stay dealt.
LEMMA OthersDealt ==
  ASSUME StructInv, Dealt, NEW b \in DOMAIN core, UNCHANGED <<req, width, tileCount>>,
         DOMAIN core' = DOMAIN core, \A c \in DOMAIN core \ {b} : core'[c] = core[c],
         DealtCore(b)'
  PROVE  Dealt'
<1> SUFFICES ASSUME NEW c \in DOMAIN core, c # b PROVE DealtCore(c)'
  BY DEF Dealt
<1>1. core'[c] = core[c] /\ DealtCore(c)
  BY DEF Dealt
<1> QED
  BY <1>1 DEF DealtCore, Lanes, TileSize, TileBegin, Blocks

LEMMA LoadKeeps ==
  ASSUME RowsFitWord, StructInv, DataInv, NEW b \in DOMAIN core, LoadTile(b)
  PROVE  DataInv'
<1>1. /\ UNCHANGED <<req, phase, width, tileCount>> /\ UNCHANGED memory
      /\ phase = "running" /\ core[b].at = "tile" /\ core[b].tile < tileCount
  BY DEF LoadTile
<1>2. Launched /\ Dealt /\ SpikeRows /\ FinalRow /\ ~stray
  BY <1>1 DEF DataInv, Launched
<1> DEFINE k == core[b].tile
           loaded == [j \in Lanes(b) |->
             IF TileBegin(k) + j < width THEN Voltage(TileBegin(k) + j, 0) ELSE Garbage]
<1>3. /\ DOMAIN core' = DOMAIN core /\ \A c \in DOMAIN core \ {b} : core'[c] = core[c]
      /\ core'[b] = [at |-> "time", tile |-> k, time |-> 0, voltage |-> loaded]
  BY LoadTileCores DEF StructInv
<1>4. loaded = [j \in Lanes(b) |-> Voltage(TileBegin(k) + j, 0)]
  <2>1. ASSUME NEW j \in Lanes(b) PROVE TileBegin(k) + j < width
    <3>1. k \in Nat /\ k < tileCount
      BY <1>1, CoreFacts
    <3>2. /\ TileBegin(k) \in 0 .. width - 1 /\ TileSize(k) \in 1 .. TileLength
          /\ TileBegin(k) + TileSize(k) <= width
      BY <1>2, <3>1, Geometry
    <3>3. j \in 0 .. TileSize(k) - 1
      BY DEF Lanes
    <3>4. width \in Nat /\ TileLength \in Nat
      BY CoreFacts, Constants
    <3> HIDE DEF k
    <3> QED
      BY <3>2, <3>3, <3>4, SMT
  <2> QED
    BY <2>1
<1>5. DealtCore(b)'
  <2>1. k % Blocks = b /\ Blocks' = Blocks
    BY <1>1, <1>2 DEF Dealt, DealtCore, Blocks
  <2> HIDE DEF loaded
  <2>2. core'[b].tile = k /\ core'[b].time = 0 /\ core'[b].voltage = loaded
    BY <1>3
  <2>3. Lanes(b)' = Lanes(b)
    BY <1>1, <2>2 DEF Lanes, TileSize, TileBegin
  <2>4. core'[b].voltage = [j \in Lanes(b)' |-> Voltage(TileBegin(core'[b].tile) + j, core'[b].time)]
    BY <1>4, <2>2, <2>3
  <2> QED
    BY <1>1, <2>1, <2>2, <2>4 DEF DealtCore, TileBegin
<1>6. Dealt'
  BY <1>1, <1>2, <1>3, <1>5, OthersDealt
<1>7. SpikeRows'
  <2>1. ASSUME NEW a \in Addresses PROVE DoneAt(a)' <=> DoneAt(a)
    <3>1. PICK k1 \in Nat, t \in 0 .. req.steps - 1 :
            (DoneAt(a) <=> Done(k1, t)) /\ (DoneAt(a)' <=> Done(k1, t)')
      BY <1>1, <1>2, Rigid
    <3>2. t \in Nat
      BY CoreFacts, SMT
    <3> QED
      BY <3>1, <3>2, DoneLoad
  <2>2. Addresses' = Addresses /\ spike' = spike
    BY <1>1 DEF Addresses, memory
  <2>3. \A a \in Addresses : InputNeuron(a)' = InputNeuron(a) /\ InputTime(a)' = InputTime(a)
    BY <1>1 DEF InputNeuron, InputTime
  <2> QED
    BY <1>2, <2>1, <2>2, <2>3 DEF SpikeRows
<1>8. FinalRow'
  <2>1. ASSUME NEW a \in 0 .. width - 1 PROVE Past(TileOf(a))' <=> Past(TileOf(a))
    <3>1. TileOf(a) \in Nat /\ 0 \in Nat
      BY CoreFacts, TileOfValue
    <3> QED
      BY <3>1, DoneLoad
  <2> QED
    BY <1>1, <1>2, <2>1 DEF FinalRow, memory
<1> QED
  BY <1>1, <1>2, <1>6, <1>7, <1>8 DEF DataInv, Launched, memory

LEMMA TimeKeeps ==
  ASSUME RowsFitWord, StructInv, DataInv, NEW b \in DOMAIN core, TimeStep(b)
  PROVE  DataInv'
<1>1. /\ UNCHANGED <<req, phase, width, tileCount, final>>
      /\ phase = "running" /\ core[b].at = "time" /\ core[b].time < req.steps
  BY DEF TimeStep
<1>2. Launched /\ Dealt /\ SpikeRows /\ FinalRow /\ ~stray
  BY <1>1 DEF DataInv, Launched
<1> DEFINE k == core[b].tile
           t == core[b].time
           offset == t * width + TileBegin(k)
           charged == [j \in Lanes(b) |->
             IF core[b].voltage[j] = Voltage(InputNeuron(offset + j), t)
                /\ InputTime(offset + j) = t
               THEN Voltage(InputNeuron(offset + j), t + 1) ELSE Garbage]
           next == [j \in Lanes(b) |-> Voltage(TileBegin(k) + j, t + 1)]
<1>3. /\ DOMAIN core' = DOMAIN core /\ \A c \in DOMAIN core \ {b} : core'[c] = core[c]
      /\ core'[b] = [at |-> core[b].at, tile |-> k, time |-> t + 1, voltage |-> charged]
  BY TimeStepCores DEF StructInv
<1>4. spike' = Stored(spike, offset, charged) /\ stray' = (stray \/ Leaves(spike, offset, charged))
  BY DEF TimeStep
<1>5. charged = next
  <2>1. ASSUME NEW j \in Lanes(b)
        PROVE  /\ InputNeuron(offset + j) = TileBegin(k) + j
               /\ InputTime(offset + j) = t
               /\ core[b].voltage[j] = Voltage(InputNeuron(offset + j), t)
    BY <1>2, Charged
  <2> QED
    BY <2>1
<1>6. \A j \in Lanes(b) : offset + j \in Addresses
  BY <1>2, Charged
<1> HIDE DEF charged
<1>7. k \in Nat /\ k < tileCount /\ t \in Nat /\ width \in Nat \ {0}
      /\ TileBegin(k) \in Int /\ offset \in Int /\ TileSize(k) \in Int
  <2>1. k \in Nat /\ width \in Nat \ {0}
    BY CoreFacts
  <2>2. t \in Nat
    <3>1. t \in 0 .. req.steps
      BY CoreFacts
    <3> HIDE DEF t
    <3> QED
      BY <3>1, SMT
  <2>3. k < tileCount
    BY <1>1, <1>2 DEF Dealt, DealtCore
  <2> HIDE DEF k, t
  <2>4. TileBegin(k) \in Int /\ TileSize(k) \in Int
    BY <1>2, <2>1, <2>3, Geometry
  <2>5. offset \in Int
    BY <2>1, <2>2, <2>4, SMT
  <2> QED
    BY <2>1, <2>2, <2>3, <2>4, <2>5
<1>8. DealtCore(b)'
  <2>1. k % Blocks = b /\ Blocks' = Blocks
    BY <1>1, <1>2 DEF Dealt, DealtCore, Blocks
  <2>2. core'[b].tile = k /\ core'[b].time = t + 1 /\ core'[b].voltage = charged
    BY <1>3
  <2>3. Lanes(b)' = Lanes(b)
    BY <1>1, <2>2 DEF Lanes, TileSize, TileBegin
  <2>4. core'[b].voltage = [j \in Lanes(b)' |-> Voltage(TileBegin(core'[b].tile) + j, core'[b].time)]
    BY <1>5, <2>2, <2>3
  <2> QED
    BY <1>1, <1>7, <2>1, <2>2, <2>4 DEF DealtCore, TileBegin
<1>9. Dealt'
  BY <1>1, <1>2, <1>3, <1>8, OthersDealt
<1>10. DOMAIN spike = Addresses /\ DOMAIN charged = Lanes(b) /\ Lanes(b) = 0 .. TileSize(k) - 1
  BY <1>2, <1>5 DEF SpikeRows, Lanes
<1>11. ~stray'
  BY <1>2, <1>4, <1>6, <1>10 DEF Leaves
<1>12. SpikeRows'
  <2>1. Addresses' = Addresses
    BY <1>1 DEF Addresses
  <2>2. \A a \in Addresses : InputNeuron(a)' = InputNeuron(a) /\ InputTime(a)' = InputTime(a)
    BY <1>1 DEF InputNeuron, InputTime
  <2> DEFINE new(a) == IF a - offset \in DOMAIN charged
                         THEN [value |-> charged[a - offset], writes |-> spike[a].writes + 1]
                         ELSE spike[a]
             want(a) == IF DoneAt(a)'
                          THEN Written(Voltage(InputNeuron(a), InputTime(a) + 1)) ELSE Unwritten
  <2>3. spike' = [a \in Addresses |-> new(a)]
    BY <1>4, <1>10 DEF Stored
  <2>4. ASSUME NEW a \in Addresses
        PROVE  new(a) = want(a)
    <3>1. PICK k1 \in Nat, t1 \in 0 .. req.steps - 1 :
            /\ k1 = TileOf(InputNeuron(a)) /\ t1 = InputTime(a)
            /\ (DoneAt(a) <=> Done(k1, t1)) /\ (DoneAt(a)' <=> Done(k1, t1)')
      BY <1>1, <1>2, Rigid
    <3>2. t1 \in Nat
      BY SMT
    <3>3. /\ DoneAt(a)' <=> DoneAt(a) \/ (k1 = k /\ t1 = t)
          /\ k1 = k /\ t1 = t => ~DoneAt(a)
      BY <1>2, <3>1, <3>2, DoneTime
    <3>4. a \in Int
      BY <1>2, Address
    <3>5. /\ a - offset \in 0 .. TileSize(k) - 1 <=> t1 = t /\ k1 = k
          /\ a - offset \in 0 .. TileSize(k) - 1
             => InputNeuron(a) = TileBegin(k) + (a - offset)
      BY <1>2, <1>7, <3>1, <3>4, Place
    <3>6. spike[a] = IF DoneAt(a) THEN Written(Voltage(InputNeuron(a), InputTime(a) + 1))
                     ELSE Unwritten
      BY <1>2 DEF SpikeRows
    <3>7. CASE a - offset \in 0 .. TileSize(k) - 1
      <4>1. spike[a].writes = 0 /\ DoneAt(a)'
        BY <3>3, <3>5, <3>6, <3>7 DEF Unwritten
      <4>2. charged[a - offset] = Voltage(InputNeuron(a), InputTime(a) + 1)
        BY <1>5, <1>10, <3>1, <3>5, <3>7
      <4>3. new(a) = [value |-> Voltage(InputNeuron(a), InputTime(a) + 1), writes |-> 0 + 1]
        BY <1>10, <3>7, <4>1, <4>2
      <4> HIDE DEF new
      <4> QED
        BY <4>1, <4>3 DEF Written
    <3>8. CASE a - offset \notin 0 .. TileSize(k) - 1
      <4>1. new(a) = spike[a]
        BY <1>10, <3>8
      <4>2. DoneAt(a)' <=> DoneAt(a)
        BY <3>3, <3>5, <3>8
      <4> HIDE DEF new
      <4> QED
        BY <3>6, <4>1, <4>2
    <3> QED
      BY <3>7, <3>8
  <2> HIDE DEF new
  <2>5. spike' = [a \in Addresses |-> want(a)]
    BY <2>3, <2>4
  <2> QED
    BY <2>1, <2>2, <2>5 DEF SpikeRows
<1>13. FinalRow'
  <2>1. ASSUME NEW a \in 0 .. width - 1 PROVE Past(TileOf(a))' <=> Past(TileOf(a))
    <3>1. TileOf(a) \in Nat /\ 0 \in Nat
      BY CoreFacts, TileOfValue
    <3> QED
      BY <1>2, <3>1, DoneTime
  <2> QED
    BY <1>1, <1>2, <2>1 DEF FinalRow
<1> QED
  BY <1>1, <1>2, <1>9, <1>11, <1>12, <1>13 DEF DataInv, Launched

LEMMA FinalKeeps ==
  ASSUME RowsFitWord, StructInv, DataInv, NEW b \in DOMAIN core, StoreFinal(b)
  PROVE  DataInv'
<1>1. /\ UNCHANGED <<req, phase, width, tileCount, spike>>
      /\ phase = "running" /\ core[b].at = "time" /\ core[b].time = req.steps
  BY DEF StoreFinal
<1>2. Launched /\ Dealt /\ SpikeRows /\ FinalRow /\ ~stray
  BY <1>1 DEF DataInv, Launched
<1> DEFINE k == core[b].tile
           values == core[b].voltage
           first == TileBegin(k)
<1>3. /\ DOMAIN core' = DOMAIN core /\ \A c \in DOMAIN core \ {b} : core'[c] = core[c]
      /\ core'[b] = [at |-> "tile", tile |-> (k + Blocks) % Word,
                     time |-> core[b].time, voltage |-> values]
  BY StoreFinalCores DEF StructInv
<1>4. final' = Stored(final, first, values) /\ stray' = (stray \/ Leaves(final, first, values))
  BY DEF StoreFinal
<1>5. k \in Nat /\ k < tileCount /\ width \in Nat \ {0} /\ req.steps \in Nat
      /\ values = [j \in Lanes(b) |-> Voltage(first + j, req.steps)]
      /\ k % Blocks = b /\ Blocks \in Nat \ {0}
  BY <1>1, <1>2, CoreFacts DEF Dealt, DealtCore
<1>6. /\ first \in 0 .. width - 1 /\ TileSize(k) \in 1 .. TileLength
      /\ first + TileSize(k) <= width /\ Lanes(b) = 0 .. TileSize(k) - 1
  BY <1>2, <1>5, Geometry DEF Lanes
<1> HIDE DEF values
<1>7. DealtCore(b)'
  <2>1. Blocks' = Blocks
    BY <1>1 DEF Blocks
  <2>2. core'[b].tile = k + Blocks /\ core'[b].at = "tile"
    BY <1>2, <1>3, NextTile
  <2>3. (k + Blocks) % Blocks = k % Blocks
    <3>1. k \in Int
      BY <1>5
    <3> HIDE DEF k, Blocks
    <3> QED
      BY <1>5, <3>1, NextRemainder
  <2> QED
    BY <1>5, <2>1, <2>2, <2>3 DEF DealtCore
<1>8. Dealt'
  BY <1>1, <1>2, <1>3, <1>7, OthersDealt
<1>9. DOMAIN final = 0 .. width - 1 /\ DOMAIN values = 0 .. TileSize(k) - 1
  BY <1>2, <1>5, <1>6 DEF FinalRow
<1>10. ~stray'
  <2>1. ASSUME NEW j \in 0 .. TileSize(k) - 1 PROVE first + j \in 0 .. width - 1
    <3>1. TileLength \in Nat
      BY Constants
    <3> DEFINE size == TileSize(k)
    <3>2. size \in 1 .. TileLength /\ first + size <= width /\ j \in 0 .. size - 1
      BY <1>6
    <3> HIDE DEF size, first
    <3> QED
      BY <1>5, <1>6, <3>1, <3>2, SMT
  <2> QED
    BY <1>2, <1>4, <1>9, <2>1 DEF Leaves
<1>11. SpikeRows'
  <2>1. ASSUME NEW a \in Addresses PROVE DoneAt(a)' <=> DoneAt(a)
    <3>1. PICK k1 \in Nat, t \in 0 .. req.steps - 1 :
            (DoneAt(a) <=> Done(k1, t)) /\ (DoneAt(a)' <=> Done(k1, t)')
      BY <1>1, <1>2, Rigid
    <3> QED
      BY <1>2, <3>1, DoneFinal
  <2>2. Addresses' = Addresses
    BY <1>1 DEF Addresses
  <2>3. \A a \in Addresses : InputNeuron(a)' = InputNeuron(a) /\ InputTime(a)' = InputTime(a)
    BY <1>1 DEF InputNeuron, InputTime
  <2> QED
    BY <1>1, <1>2, <2>1, <2>2, <2>3 DEF SpikeRows
<1>12. FinalRow'
  <2> DEFINE new(a) == IF a - first \in DOMAIN values
                         THEN [value |-> values[a - first], writes |-> final[a].writes + 1]
                         ELSE final[a]
             want(a) == IF Past(TileOf(a))' THEN Written(Voltage(a, req.steps)) ELSE Unwritten
  <2>1. final' = [a \in 0 .. width - 1 |-> new(a)]
    BY <1>4, <1>9 DEF Stored
  <2>2. ASSUME NEW a \in 0 .. width - 1
        PROVE  new(a) = want(a)
    <3>1. TileOf(a) \in Nat /\ a \in Int
      <4>1. TileOf(a) \in Nat
        BY <1>5, TileOfValue
      <4>2. a \in Int
        BY SMT
      <4> QED
        BY <4>1, <4>2
    <3>2. InputNeuron(a) = a /\ InputTime(a) = 0
      BY <1>5, Small DEF InputNeuron, InputTime
    <3>3. 0 * width + first = first
      <4>1. first \in Int
        BY <1>5, <1>6, SMT
      <4> HIDE DEF first
      <4> QED
        BY <1>5, <4>1, SMT
    <3>4. /\ a - first \in 0 .. TileSize(k) - 1 <=> TileOf(a) = k
          /\ a - first \in 0 .. TileSize(k) - 1 => a = first + (a - first)
      <4>1. 0 \in Nat
        OBVIOUS
      <4> QED
        BY <1>2, <1>5, <3>1, <3>2, <3>3, <4>1, Place
    <3>5. /\ Past(TileOf(a))' <=> Past(TileOf(a)) \/ TileOf(a) = k
          /\ TileOf(a) = k => ~Past(TileOf(a))
      <4>1. 0 \in 0 .. req.steps - 1
        <5>1. req.steps > 0
          BY <1>2 DEF StructInv, HostInv
        <5> QED
          BY <1>5, <5>1, SMT
      <4> QED
        BY <1>2, <3>1, <4>1, DoneFinal
    <3>6. final[a] = IF Past(TileOf(a)) THEN Written(Voltage(a, req.steps)) ELSE Unwritten
      BY <1>2 DEF FinalRow
    <3>7. CASE a - first \in 0 .. TileSize(k) - 1
      <4>1. final[a].writes = 0 /\ Past(TileOf(a))'
        BY <3>4, <3>5, <3>6, <3>7 DEF Unwritten
      <4>2. values[a - first] = Voltage(a, req.steps)
        BY <1>5, <1>6, <3>4, <3>7
      <4>3. new(a) = [value |-> Voltage(a, req.steps), writes |-> 0 + 1]
        BY <1>9, <3>7, <4>1, <4>2
      <4> HIDE DEF new
      <4> QED
        BY <4>1, <4>3 DEF Written
    <3>8. CASE a - first \notin 0 .. TileSize(k) - 1
      <4>1. new(a) = final[a]
        BY <1>9, <3>8
      <4>2. Past(TileOf(a))' <=> Past(TileOf(a))
        BY <3>4, <3>5, <3>8
      <4> HIDE DEF new
      <4> QED
        BY <3>6, <4>1, <4>2
    <3> QED
      BY <3>7, <3>8
  <2> HIDE DEF new
  <2>3. final' = [a \in 0 .. width - 1 |-> want(a)]
    BY <2>1, <2>2
  <2> QED
    BY <1>1, <2>3 DEF FinalRow
<1> QED
  BY <1>1, <1>2, <1>8, <1>10, <1>11, <1>12 DEF DataInv, Launched

-----------------------------------------------------------------------------
(* The host.                                                               *)

LEMMA DataInit == Init => DataInv
  BY DEF Init, DataInv, Launched

\* A core that just started has passed no tile.
LEMMA NothingPast ==
  ASSUME NEW d \in Nat \ {0}, NEW k \in Nat
  PROVE  k % d \in 0 .. d - 1 /\ k % d <= k
<1> DEFINE q == k \div d
           r == k % d
<1>1. k \in Int
  BY SMT
<1>2. q \in Int /\ r \in 0 .. d - 1 /\ k = (d * q) + r
  BY <1>1, Division
<1> HIDE DEF q, r
<1>3. q >= 0
  <2>1. CASE q <= 0 - 1
    <3>1. d * q <= 0 - d
      BY <1>2, <2>1, SMT
    <3> QED
      BY <1>2, <3>1, SMT
  <2> QED
    BY <1>2, <2>1, SMT
<1>4. d * q >= 0
  BY <1>2, <1>3, SMT
<1>5. r <= k
  BY <1>2, <1>4, SMT
<1> QED
  BY <1>2, <1>5 DEF r

LEMMA LaunchKeeps ==
  ASSUME StructInv, DataInv, TilingFunc
  PROVE  DataInv'
<1>1. /\ phase = "tiling" /\ UNCHANGED <<req, width, stray>> /\ ~Launched
  BY DEF TilingFunc, Launched
<1>2. CASE TilingAccepts
  <2> DEFINE n == Blocks'
  <2>1. /\ phase' = "running" /\ tileCount' = TilesOf(width)
        /\ core' = [b \in 0 .. n - 1 |-> [Idle EXCEPT !.tile = b]]
        /\ spike' = [a \in Addresses |-> Unwritten]
        /\ final' = [a \in 0 .. width - 1 |-> Unwritten]
    BY <1>2 DEF TilingFunc, Addresses
  <2>2. n \in Nat \ {0} /\ width \in Nat \ {0}
    <3>1. width \in Nat \ {0}
      BY <1>1, SMT DEF StructInv, HostInv
    <3>2. TilesOf(width) \in Nat \ {0}
      BY <3>1, TileCount
    <3> QED
      BY <2>1, <3>1, <3>2, Constants, SMT DEF Blocks
  <2>3. ASSUME NEW b \in 0 .. n - 1 PROVE core'[b].tile = b /\ core'[b].at = "tile"
    <3>1. core'[b] = [Idle EXCEPT !.tile = b]
      BY <2>1
    <3> HIDE DEF n
    <3> QED
      BY <3>1 DEF Idle
  <2>4. Dealt'
    <3> SUFFICES ASSUME NEW b \in 0 .. n - 1 PROVE DealtCore(b)'
      BY <2>1 DEF Dealt
    <3>1. b % n = b
      <4> HIDE DEF n
      <4> QED
        BY <2>2, Small
    <3>2. core'[b].tile = b /\ core'[b].at = "tile"
      BY <2>3
    <3>3. Blocks' = n
      OBVIOUS
    <3> HIDE DEF n
    <3> QED
      BY <3>1, <3>2, <3>3 DEF DealtCore
  <2>5. ASSUME NEW k \in Nat
        PROVE  ~Past(k)' /\ Owner(k)' \in 0 .. n - 1 /\ core'[Owner(k)'].at = "tile"
    <3> DEFINE o == k % n
    <3>1. o \in 0 .. n - 1 /\ o <= k
      <4> HIDE DEF n
      <4> QED
        BY <2>2, NothingPast
    <3>2. Owner(k)' = o
      BY DEF Owner
    <3>3. ~(o > k)
      <4> HIDE DEF n
      <4>1. o \in Int
        BY <2>2, <3>1, SMT
      <4> HIDE DEF o
      <4> QED
        BY <3>1, <4>1, SMT
    <3> HIDE DEF o, n
    <3>4. core'[o].tile = o /\ core'[o].at = "tile"
      BY <2>3, <3>1
    <3> QED
      BY <3>1, <3>2, <3>3, <3>4 DEF Past
  <2>6. StructInv' /\ Launched'
    BY <2>1, TilingKeeps DEF Launched
  <2>7. Addresses' = Addresses
    BY <1>1 DEF Addresses
  <2>8. ASSUME NEW a \in Addresses PROVE ~DoneAt(a)'
    <3>1. TileOf(InputNeuron(a)') \in Nat
      <4>1. InputNeuron(a) \in 0 .. width - 1
        <5>1. a \in Int
          <6>1. req.steps \in Nat
            BY DEF StructInv, HostInv
          <6> QED
            BY <2>2, <6>1, SMT DEF Addresses
        <5> QED
          BY <2>2, <5>1, Division DEF InputNeuron
      <4>2. InputNeuron(a)' = InputNeuron(a)
        BY <1>1 DEF InputNeuron
      <4> QED
        BY <2>2, <4>1, <4>2, TileOfValue
    <3>2. TileOf(InputNeuron(a))' = TileOf(InputNeuron(a)')
      BY DEF TileOf
    <3> DEFINE k == TileOf(InputNeuron(a)')
    <3>3. PICK k1 \in Nat : k1 = TileOf(InputNeuron(a)')
      BY <3>1
    <3>4. ~Past(k1)' /\ core'[Owner(k1)'].at = "tile"
      BY <2>5
    <3> QED
      BY <3>2, <3>3, <3>4 DEF DoneAt, Done, Past, Owner
  <2>9. SpikeRows'
    BY <2>1, <2>7, <2>8 DEF SpikeRows
  <2>10. FinalRow'
    <3>1. ASSUME NEW a \in 0 .. width - 1 PROVE ~Past(TileOf(a))'
      BY <2>2, <2>5, TileOfValue
    <3> QED
      BY <1>1, <2>1, <3>1 DEF FinalRow
  <2> QED
    BY <1>1, <2>1, <2>4, <2>9, <2>10 DEF DataInv, Launched
<1>3. CASE ~TilingAccepts
  BY <1>1, <1>3 DEF TilingFunc, DataInv, Launched
<1> QED
  BY <1>2, <1>3

LEMMA DataStep ==
  ASSUME RowsFitWord, StructInv, DataInv, [Next]_vars
  PROVE  DataInv'
<1>1. CASE Route \/ Pad \/ CheckSequence
  BY <1>1 DEF Route, Pad, CheckSequence, memory, DataInv, Launched
<1>2. CASE TilingFunc
  BY <1>2, LaunchKeeps
<1>3. CASE \E b \in DOMAIN core : Step(b)
  BY <1>3, LoadKeeps, TimeKeeps, FinalKeeps DEF Step
<1>4. CASE Crop
  <2>1. /\ phase = "running" /\ phase' = "returned" /\ \A b \in DOMAIN core : Finished(b)
        /\ UNCHANGED <<req, width, tileCount, core, spike, final, stray>>
    BY <1>4 DEF Crop, memory
  <2>2. Dealt' /\ SpikeRows' /\ FinalRow'
    BY <2>1 DEF DataInv, Launched, Dealt, DealtCore, SpikeRows, FinalRow, Lanes, TileSize,
                TileBegin, Blocks, DoneAt, Done, Past, Owner, Addresses, InputNeuron,
                InputTime
  <2> QED
    BY <2>1, <2>2 DEF DataInv, Launched, Finished
<1>5. CASE UNCHANGED vars
  BY <1>5 DEF vars, memory, DataInv, Launched, Dealt, DealtCore, SpikeRows, FinalRow, Lanes,
              TileSize, TileBegin, Blocks, DoneAt, Done, Past, Owner, Addresses,
              InputNeuron, InputTime, Finished
<1> QED
  BY <1>1, <1>2, <1>3, <1>4, <1>5 DEF Next

LEMMA DataHolds ==
  ASSUME RowsFitWord
  PROVE  Spec => [](StructInv /\ DataInv)
<1>1. StructInv /\ DataInv /\ [Next]_vars => (StructInv /\ DataInv)'
  BY StructStep, DataStep
<1>2. Init => StructInv /\ DataInv
  BY StructInit, DataInit
<1> QED
  BY <1>1, <1>2, PTL DEF Spec

-----------------------------------------------------------------------------
(* The theorems.                                                           *)

LEMMA DisjointOf ==
  ASSUME StructInv, DataInv
  PROVE  TransfersDisjoint
<1>1. CASE Launched
  <2>1. ASSUME NEW a \in DOMAIN spike PROVE spike[a].writes <= 1
    <3>1. spike[a] = IF DoneAt(a) THEN Written(Voltage(InputNeuron(a), InputTime(a) + 1))
                     ELSE Unwritten
      BY <1>1 DEF DataInv, SpikeRows
    <3>2. spike[a].writes = 1 \/ spike[a].writes = 0
      BY <3>1 DEF Written, Unwritten
    <3> QED
      BY <3>2, SMT
  <2>2. ASSUME NEW a \in DOMAIN final PROVE final[a].writes <= 1
    <3>1. final[a] = IF Past(TileOf(a)) THEN Written(Voltage(a, req.steps)) ELSE Unwritten
      BY <1>1 DEF DataInv, FinalRow
    <3>2. final[a].writes = 1 \/ final[a].writes = 0
      BY <3>1 DEF Written, Unwritten
    <3> QED
      BY <3>2, SMT
  <2> QED
    BY <2>1, <2>2 DEF TransfersDisjoint, DataInv
<1>2. CASE ~Launched
  BY <1>2 DEF TransfersDisjoint, DataInv
<1> QED
  BY <1>1, <1>2

LEMMA RowsOf ==
  ASSUME StructInv, DataInv
  PROVE  RowsAreTheirNeurons
<1> SUFFICES ASSUME phase = "returned", NEW i \in 0 .. req.neurons - 1
             PROVE  /\ final[i].value = Voltage(i, req.steps)
                    /\ \A t \in 0 .. req.steps - 1 :
                         spike[t * width + i].value = Voltage(i, t + 1)
  BY DEF RowsAreTheirNeurons
<1>1. /\ Launched /\ SpikeRows /\ FinalRow
      /\ \A b \in DOMAIN core : core[b].tile >= tileCount
  BY DEF Launched, DataInv, Finished
<1>2. width \in Nat \ {0} /\ req.steps \in Nat /\ tileCount = TilesOf(width)
      /\ width = AlignedCount
  BY <1>1, SMT DEF StructInv, HostInv
<1>3. req.neurons <= width /\ req.neurons \in Nat
  <2> DEFINE m == req.neurons
             n == m + Alignment - 1
             q == n \div Alignment
  <2>1. m \in Nat /\ Alignment \in Nat \ {0}
    BY NativePartitionAssumption, Constants DEF StructInv, HostInv
  <2> HIDE DEF m
  <2>2. n \in Int
    BY <2>1, SMT
  <2> HIDE DEF n
  <2>3. q \in Int /\ n % Alignment \in 0 .. Alignment - 1 /\ n = (Alignment * q) + (n % Alignment)
    BY <2>1, <2>2, Division
  <2> HIDE DEF q
  <2>4. m <= Alignment * q /\ Alignment * q = q * Alignment
    BY <2>1, <2>2, <2>3, SMT DEF n
  <2>5. width = q * Alignment
    BY <1>2 DEF AlignedCount, q, n, m
  <2> QED
    BY <2>1, <2>4, <2>5 DEF m
<1>4. i \in 0 .. width - 1 /\ i \in Int
  BY <1>2, <1>3, SMT
<1>5. ASSUME NEW j \in 0 .. width - 1 PROVE Past(TileOf(j))
  <2>1. TileOf(j) \in Nat /\ TileOf(j) < tileCount /\ tileCount \in Nat
    BY <1>2, TileOfValue, TileCount
  <2>2. Owner(TileOf(j)) \in DOMAIN core
    BY <1>1, <2>1, Owned
  <2>3. core[Owner(TileOf(j))].tile >= tileCount /\ core[Owner(TileOf(j))].tile \in Nat
    BY <1>1, <2>2, CoreFacts
  <2> QED
    BY <2>1, <2>3, SMT DEF Past
<1>6. final[i].value = Voltage(i, req.steps)
  BY <1>1, <1>4, <1>5 DEF FinalRow, Written
<1>7. ASSUME NEW t \in 0 .. req.steps - 1
      PROVE  spike[t * width + i].value = Voltage(i, t + 1)
  <2> DEFINE a == t * width + i
             row == width * t
             end == req.steps * width
  <2>1. t \in Int /\ 0 <= t /\ t + 1 <= req.steps
    BY <1>2, SMT
  <2>2. row \in Nat /\ row = t * width /\ row + width <= end /\ end \in Int
    <3>1. (req.steps - (t + 1)) * width >= 0
      BY <1>2, <2>1, SMT
    <3>2. (req.steps - (t + 1)) * width = end - (row + width) /\ end \in Int
          /\ row \in Nat /\ row = t * width
      BY <1>2, <2>1, SMT
    <3> HIDE DEF row, end
    <3> QED
      BY <1>2, <3>1, <3>2, SMT
  <2>3. a = row + i
    BY <2>2
  <2>4. a \in Int /\ a \in 0 .. end - 1
    <3> HIDE DEF row, end, a
    <3> QED
      BY <1>2, <1>4, <2>2, <2>3, SMT
  <2>5. InputTime(a) = t /\ InputNeuron(a) = i
    <3> HIDE DEF a
    <3> QED
      BY <1>2, <1>4, <2>1, <2>3, <2>4, Unique DEF InputTime, InputNeuron
  <2>6. a \in Addresses
    BY <2>4 DEF Addresses
  <2> HIDE DEF a
  <2>7. DoneAt(a)
    BY <1>4, <1>5, <2>5 DEF DoneAt, Done
  <2>8. spike[a].value = Voltage(i, t + 1)
    BY <1>1, <2>5, <2>6, <2>7 DEF SpikeRows, Written
  <2> QED
    BY <2>8 DEF a
<1> QED
  BY <1>6, <1>7

\* However the cores interleave, no address is written twice and no transfer
\* leaves its buffer, if no row reaches the last tile of a word (the offsets of
\* tiles, rows and the next tile of a core).
THEOREM DisjointTransfers ==
  ASSUME RowsFitWord
  PROVE  Spec => []TransfersDisjoint
<1>1. StructInv /\ DataInv => TransfersDisjoint
  BY DisjointOf
<1> QED
  BY <1>1, DataHolds, PTL

\* Every neuron of the caller gets its own voltages after exactly its own
\* inputs, through padding, tiles, cores and cropping, under the same condition.
THEOREM OwnRows ==
  ASSUME RowsFitWord
  PROVE  Spec => []RowsAreTheirNeurons
<1>1. StructInv /\ DataInv => RowsAreTheirNeurons
  BY RowsOf
<1> QED
  BY <1>1, DataHolds, PTL
=============================================================================
