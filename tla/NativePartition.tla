-------------------------- MODULE NativePartition --------------------------
(***************************************************************************)
(* One fused multi-step forward of a stateful neuron on the device: the    *)
(* checks of the router (activation_based/_aspy.py), the padding and       *)
(* cropping of the adapter (src/spikingjelly_npu_aspy.py), the checks of   *)
(* the bridge (native/aspy/bridge/aspy_bridge.cpp), the tiling             *)
(* (native/aspy/op_host/as_py_if_forward.cpp) and the AI cores that run    *)
(* the kernel (native/aspy/op_kernel/as_py_if_forward.cpp).                *)
(*                                                                         *)
(* A time row is cut into tiles, tile k goes to core k % blocks, and a     *)
(* core carries the voltages of its tile through the whole sequence in its *)
(* local memory, which the next tile reuses.  The cores run concurrently   *)
(* on one global memory.  The arithmetic on indices is that of uint32_t,   *)
(* modulo Word.                                                            *)
(*                                                                         *)
(* A voltage is abstracted to the neuron it belongs to and the number of   *)
(* inputs of that neuron it integrated; Garbage is any other mixture.      *)
(* spike stands for every buffer written at the same offsets: spike_seq,   *)
(* v_seq and h_seq.                                                        *)
(***************************************************************************)
EXTENDS Integers, FiniteSets

CONSTANTS
  TileLength,   \* kTileLength, 4096
  Alignment,    \* the values of a 32-byte block, 8
  MaxCores,     \* kAscend910BAiCores, 20
  Word,         \* 2^32
  MaxSteps,     \* bound: length of a sequence
  MaxNeurons    \* bound: values of one time step

ASSUME NativePartitionAssumption ==
  /\ {TileLength, Alignment, MaxCores, Word} \subseteq Nat \ {0}
  /\ TileLength % Alignment = 0
  /\ Word % TileLength = 0
  /\ MaxSteps \in Nat /\ MaxNeurons \in Nat

VARIABLES
  req,       \* the input: time steps and values per step
  phase,     \* how far the call is
  width,     \* the length of a row on the device
  tileCount, \* tiles of a row
  core,      \* every launched core: its tile, its time step, its voltages
  spike,     \* global memory: the rows of the sequence
  final,     \* global memory: v_final
  stray      \* some transfer left its buffer

vars == <<req, phase, width, tileCount, core, spike, final, stray>>
memory == <<spike, final, stray>>

Voltage(i, n) == [neuron |-> i, fed |-> n]
Garbage == Voltage(-1, -1)
Unwritten == [value |-> Garbage, writes |-> 0]

Idle == [at |-> "tile", tile |-> 0, time |-> 0, voltage |-> <<>>]

Init ==
  /\ req \in [steps : 0 .. MaxSteps, neurons : 0 .. MaxNeurons]
  /\ phase = "route"
  /\ width = 0
  /\ tileCount = 0
  /\ core = <<>>
  /\ spike = <<>>
  /\ final = <<>>
  /\ stray = FALSE

(***************************************************************************)
(* The host.                                                               *)
(***************************************************************************)
\* _unsupported_reason: of an NPU tensor in the right layout, the length of
\* the sequence decides.
Unsupported == req.steps = 0

Route ==
  /\ phase = "route"
  /\ phase' = IF Unsupported THEN "fallback" ELSE "adapter"
  /\ UNCHANGED <<req, width, tileCount, core, memory>>

\* The adapter pads every row to whole 32-byte blocks.
AlignedCount == ((req.neurons + Alignment - 1) \div Alignment) * Alignment

Pad ==
  /\ phase = "adapter"
  /\ width' = AlignedCount
  /\ phase' = "bridge"
  /\ UNCHANGED <<req, tileCount, core, memory>>

\* check_sequence.
CheckSequence ==
  /\ phase = "bridge"
  /\ phase' = IF req.steps > 0 /\ width > 0 /\ width % Alignment = 0
                THEN "tiling" ELSE "raised"
  /\ UNCHANGED <<req, width, tileCount, core, memory>>

\* TilingFunc; the cores start with the tile of their own index.
TilingAccepts ==
  /\ req.steps > 0 /\ width > 0
  /\ req.steps < Word /\ width < Word   \* <= UINT32_MAX
  /\ width % Alignment = 0

TilesOf(n) == (n + TileLength - 1) \div TileLength

Blocks == IF tileCount < MaxCores THEN tileCount ELSE MaxCores

TilingFunc ==
  /\ phase = "tiling"
  /\ IF TilingAccepts
       THEN /\ phase' = "running"
            /\ tileCount' = TilesOf(width)
            /\ core' = [b \in 0 .. Blocks' - 1 |-> [Idle EXCEPT !.tile = b]]
            /\ spike' = [a \in 0 .. req.steps * width - 1 |-> Unwritten]
            /\ final' = [a \in 0 .. width - 1 |-> Unwritten]
       ELSE /\ phase' = "raised"
            /\ UNCHANGED <<tileCount, core, spike, final>>
  /\ UNCHANGED <<req, width, stray>>

(***************************************************************************)
(* The cores.                                                              *)
(***************************************************************************)
\* The first value of a tile and their number: a whole tile if it ends within
\* the row.
\* A mutant splits the row evenly instead.
MutEvenSplit(tile) == tile * ((width + tileCount - 1) \div tileCount)
TileBegin(tile) == (tile * TileLength) % Word

\* A mutant forgets that the last tile may be short.
MutWholeTiles(tile) == TileLength
TileSize(tile) ==
  IF (TileBegin(tile) + TileLength) % Word <= width
    THEN TileLength ELSE (width - TileBegin(tile)) % Word

Lanes(b) == 0 .. TileSize(core[b].tile) - 1

\* The rows as the host laid them out: the input at address a belongs to this
\* neuron and time step, and there is none past the end.
InputNeuron(a) == a % width
InputTime(a) == a \div width

\* One transfer of values to addresses from first on.
Stored(buffer, first, values) ==
  [a \in DOMAIN buffer |->
     IF a - first \in DOMAIN values
       THEN [value |-> values[a - first], writes |-> buffer[a].writes + 1]
       ELSE buffer[a]]

Leaves(buffer, first, values) ==
  \E j \in DOMAIN values : first + j \notin DOMAIN buffer

\* A mutant: a core goes on with the registers of its previous tile.
MutKeepsRegisters(b) ==
  /\ phase = "running"
  /\ core[b].at = "tile" /\ core[b].tile < tileCount
  /\ core' = [core EXCEPT
       ![b].at = "time",
       ![b].time = 0,
       ![b].voltage = [j \in Lanes(b) |->
          IF j \in DOMAIN @ THEN @[j]
          ELSE Voltage(TileBegin(core[b].tile) + j, 0)]]
  /\ UNCHANGED <<req, phase, width, tileCount, memory>>

\* The voltages of the tile are loaded from v_init.
LoadTile(b) ==
  /\ phase = "running"
  /\ core[b].at = "tile" /\ core[b].tile < tileCount
  /\ LET first == TileBegin(core[b].tile) IN
     core' = [core EXCEPT
       ![b].at = "time",
       ![b].time = 0,
       ![b].voltage = [j \in Lanes(b) |->
          IF first + j < width THEN Voltage(first + j, 0) ELSE Garbage]]
  /\ UNCHANGED <<req, phase, width, tileCount, memory>>

\* Charge with the row's inputs, fire, reset, and store the row.
TimeStep(b) ==
  /\ phase = "running"
  /\ core[b].at = "time" /\ core[b].time < req.steps
  /\ LET t == core[b].time
         offset == t * width + TileBegin(core[b].tile)
         charged == [j \in Lanes(b) |->
           IF core[b].voltage[j] = Voltage(InputNeuron(offset + j), t)
              /\ InputTime(offset + j) = t
             THEN Voltage(InputNeuron(offset + j), t + 1) ELSE Garbage]
     IN  /\ core' = [core EXCEPT ![b].voltage = charged, ![b].time = t + 1]
         /\ spike' = Stored(spike, offset, charged)
         /\ stray' = (stray \/ Leaves(spike, offset, charged))
  /\ UNCHANGED <<req, phase, width, tileCount, final>>

\* The last voltages are stored and the core takes its next tile.
StoreFinal(b) ==
  /\ phase = "running"
  /\ core[b].at = "time" /\ core[b].time = req.steps
  /\ LET first == TileBegin(core[b].tile) IN
     /\ final' = Stored(final, first, core[b].voltage)
     /\ stray' = (stray \/ Leaves(final, first, core[b].voltage))
  /\ core' = [core EXCEPT ![b].at = "tile",
                          ![b].tile = (@ + Blocks) % Word]
  /\ UNCHANGED <<req, phase, width, tileCount, spike>>

\* A mutant waits for the one tile past the end.
MutExactEnd(b) == core[b].at = "tile" /\ core[b].tile = tileCount

\* The stream orders the adapter's copies behind every core.
Finished(b) == core[b].at = "tile" /\ core[b].tile >= tileCount

Crop ==
  /\ phase = "running"
  /\ \A b \in DOMAIN core : Finished(b)
  /\ phase' = "returned"
  /\ UNCHANGED <<req, width, tileCount, core, memory>>

Step(b) == LoadTile(b) \/ TimeStep(b) \/ StoreFinal(b)

Next ==
  \/ Route \/ Pad \/ CheckSequence \/ TilingFunc \/ Crop
  \/ \E b \in DOMAIN core : Step(b)

\* Every launched core makes progress, and so does the host.
Spec ==
  /\ Init /\ [][Next]_vars
  /\ WF_vars(Route \/ Pad \/ CheckSequence \/ TilingFunc \/ Crop)
  /\ \A b \in 0 .. MaxCores - 1 : WF_vars(b \in DOMAIN core /\ Step(b))

(***************************************************************************)
(* Properties.                                                             *)
(***************************************************************************)
\* The caller gets, for each of its neurons and time steps, the voltage of that
\* very neuron after exactly its inputs so far, although rows were padded, cut
\* into tiles, spread over cores and cropped, and although a core's registers
\* still hold the previous tile's voltages.
RowsAreTheirNeurons ==
  phase = "returned" =>
    \A i \in 0 .. req.neurons - 1 :
      /\ final[i].value = Voltage(i, req.steps)
      /\ \A t \in 0 .. req.steps - 1 :
           spike[t * width + i].value = Voltage(i, t + 1)

\* "All GM DMA ranges are therefore disjoint": however the cores interleave, no
\* address is written twice and no transfer leaves its buffer.
TransfersDisjoint ==
  /\ ~stray
  /\ \A a \in DOMAIN spike : spike[a].writes <= 1
  /\ \A a \in DOMAIN final : final[a].writes <= 1

\* "and naturally aligned": a transfer begins and ends on a 32-byte block.
TransfersAligned ==
  \A b \in DOMAIN core :
    core[b].at = "time" =>
      /\ TileBegin(core[b].tile) % Alignment = 0
      /\ TileSize(core[b].tile) % Alignment = 0
      /\ (core[b].time * width) % Alignment = 0

\* Every call ends: each core runs out of tiles and the host goes on.
CallEnds == <>(phase \in {"returned", "fallback", "raised"})
=============================================================================
