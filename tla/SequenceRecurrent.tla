------------------------- MODULE SequenceRecurrent -------------------------
(***************************************************************************)
(* The eager RNN, GRU and LSTM that FP32 inputs on an NPU are given        *)
(* (src/spikingjelly_npu/sequence/recurrent.py): one call, one time step   *)
(* after another, over dense, batch-first, unbatched and packed inputs.    *)
(*                                                                         *)
(* Rows of state tensors are the histories of RecurrentReference: a step   *)
(* of a cell makes one longer by an input.  The kinds of network differ in *)
(* whether they have a cell.                                               *)
(***************************************************************************)
EXTENDS RecurrentReference

CONSTANTS
  Calls         \* calls considered

\* The order a packed batch is in: the caller's, or that of a sort.
OrderOf(call) ==
  IF call.sorted = None THEN [p \in DOMAIN call.lengths |-> p] ELSE call.sorted

\* Only a packed batch has sequences of several lengths; pack_padded_sequence
\* takes none that is empty, and puts, or wants, the longest first.
ASSUME SequenceRecurrentAssumption ==
  /\ None \notin Calls
  /\ \A call \in Calls :
       /\ call.form \in {"packed", "dense", "unbatched"}
       /\ call.lengths \in Seq(Nat) /\ call.lengths # <<>>
       /\ call.layers \in Nat \ {0} /\ call.directions \in {1, 2}
       /\ {call.lstm, call.batchFirst, call.dropout, call.given, call.fp32Npu} \subseteq BOOLEAN
       /\ call.defect \in {"none", "input_dim", "hidden_dim", "shape"}
       /\ call.defect = "hidden_dim" => call.given
       /\ call.form # "packed" =>
            /\ call.sorted = None
            /\ \A s \in DOMAIN call.lengths : call.lengths[s] = call.lengths[1]
       /\ call.form = "unbatched" => Len(call.lengths) = 1
       /\ call.form = "packed" =>
            LET batch == 1 .. Len(call.lengths)
                order == OrderOf(call)
            IN  /\ \A s \in batch : call.lengths[s] > 0
                /\ order \in [batch -> batch]
                /\ \A s \in batch : \E p \in batch : order[p] = s
                /\ \A p, q \in batch : p < q =>
                     order[p] # order[q] /\ call.lengths[order[p]] >= call.lengths[order[q]]

VARIABLES
  request,      \* the call in progress
  phase,        \* "idle", "called", "layer", "steps", "finish", "returned"
  data,         \* the input of the current layer, as split into steps
  layer, direction, at,   \* the loops' positions: at counts the steps taken
  state,        \* the initial states, as prepared: [h, c], by state index
  hidden, cell, outputs,  \* the current direction
  directionOutputs, finalHidden, finalCell,
  result        \* what the last call returned or raised

sequenceVars == <<request, phase, data, layer, direction, at, state, hidden, cell,
          outputs, directionOutputs, finalHidden, finalCell, result>>

r == request

(***************************************************************************)
(* Rows, and the tensors of the caller.                                    *)
(***************************************************************************)
Mixed == Row("garbled", Zero)

\* Row i of a state is of the i-th state index and of sequence s.
Given(part, s, i) == Row(part, IF r.given THEN <<i, s>> ELSE Zero)
X(s, t) == [sequence |-> s, time |-> t]

Batch == Len(r.lengths)
StateCount == r.layers * r.directions
Transpose(m) == [j \in DOMAIN m[1] |-> [i \in DOMAIN m |-> m[i][j]]]

\* pack_padded_sequence: step by step, the sequences that are still running,
\* longest first.  sorted is the order it put them in, or None.
SortedAt(p) == OrderOf(r)[p]
BatchSizes ==
  [t \in 1 .. r.lengths[SortedAt(1)] |->
     Cardinality({s \in 1 .. Batch : r.lengths[s] >= t})]
Packed ==
  FlattenSeq([t \in DOMAIN BatchSizes |->
    [p \in 1 .. BatchSizes[t] |-> X(SortedAt(p), t)]])

\* A dense input as the caller lays it out.
Dense ==
  LET timeFirst == [t \in 1 .. r.lengths[1] |-> [s \in 1 .. Batch |-> X(s, t)]]
  IN  IF r.batchFirst THEN Transpose(timeFirst) ELSE timeFirst
Unbatched == [t \in 1 .. r.lengths[1] |-> X(1, t)]

Split(flat, sizes) ==
  LET upTo[t \in 0 .. Len(sizes)] == IF t = 0 THEN 0 ELSE upTo[t - 1] + sizes[t]
  IN  [t \in DOMAIN sizes |-> SubSeq(flat, upTo[t - 1] + 1, upTo[t])]

\* permute_hidden: the rows of each state in the order of the permutation.
Permuted(s, permutation) ==
  IF s = None \/ permutation = None THEN s
  ELSE [i \in DOMAIN s |-> [p \in DOMAIN permutation |-> s[i][permutation[p]]]]
MutUnsortedIndices == r.sorted

UnsortedIndices ==
  IF r.sorted = None THEN None
  ELSE [s \in 1 .. Batch |-> CHOOSE p \in 1 .. Batch : r.sorted[p] = s]

(***************************************************************************)
(* Preparing the input.                                                    *)
(***************************************************************************)
\* A wrong number of dimensions raises here for a dense input; what is left,
\* and every defect of a packed input or its state, raises in
\* check_forward_args; an input without steps raises last.
Rejected ==
  \/ r.defect # "none"
  \/ r.form # "packed" /\ r.lengths[1] = 0

\* The steps of the input, each with its rows: an unbatched input gets a batch
\* dimension, a batch-first one is transposed.
PreparedInput ==
  CASE r.form = "packed" -> Split(Packed, BatchSizes)
    [] r.form = "dense" -> IF r.batchFirst THEN Transpose(Dense) ELSE Dense
    [] r.form = "unbatched" ->
         IF r.batchFirst THEN Transpose(<<Unbatched>>)
         ELSE [t \in DOMAIN Unbatched |-> <<Unbatched[t]>>]

PreparedState(part) ==
  LET passed == [i \in 1 .. StateCount |-> [s \in 1 .. Batch |-> Given(part, s, i)]]
  IN  IF r.form = "packed" THEN Permuted(passed, r.sorted) ELSE passed

(***************************************************************************)
(* One step of a cell over the active rows.                                *)
(***************************************************************************)
Weights == <<layer, direction>>
Gates(x, h, c) ==
  IF c # None /\ c # CellOf(h) THEN Mixed
  ELSE [h EXCEPT !.fed = Append(@, [w |-> Weights, x |-> x])]
NextHidden(xs, hs, cs) ==
  [p \in DOMAIN hs |-> Gates(xs[p], hs[p], IF cs = None THEN None ELSE cs[p])]
NextCell(xs, hs, cs) ==
  IF cs = None THEN None
  ELSE [p \in DOMAIN hs |-> CellOf(NextHidden(xs, hs, cs)[p])]

(***************************************************************************)
(* The call.                                                               *)
(***************************************************************************)
SequenceInit ==
  /\ request = None
  /\ phase = "idle"
  /\ data = <<>> /\ layer = 0 /\ direction = 0 /\ at = 0
  /\ state = None
  /\ hidden = <<>> /\ cell = None /\ outputs = <<>>
  /\ directionOutputs = <<>> /\ finalHidden = <<>> /\ finalCell = None
  /\ result = None

Begin ==
  /\ phase = "idle"
  /\ request' \in Calls
  /\ phase' = "called"
  /\ UNCHANGED <<data, layer, direction, at, state, hidden, cell, outputs,
                 directionOutputs, finalHidden, finalCell, result>>

Answer(outcome) ==
  /\ phase' = "returned"
  /\ result' = outcome
  /\ data' = <<>> /\ layer' = 0 /\ direction' = 0 /\ at' = 0
  /\ state' = None
  /\ hidden' = <<>> /\ cell' = None /\ outputs' = <<>>
  /\ directionOutputs' = <<>> /\ finalHidden' = <<>> /\ finalCell' = None
  /\ UNCHANGED request

\* Nothing of a call outlives it: the layers keep no state.
CallerTakesResult ==
  /\ phase = "returned"
  /\ phase' = "idle"
  /\ request' = None
  /\ result' = None
  /\ UNCHANGED <<data, layer, direction, at, state, hidden, cell, outputs,
                 directionOutputs, finalHidden, finalCell>>

\* Anything but FP32 on an NPU is run by torch.
Delegate ==
  /\ phase = "called" /\ ~r.fp32Npu
  /\ Answer([by |-> "torch"])

Reject ==
  /\ phase = "called" /\ r.fp32Npu /\ Rejected
  /\ Answer([by |-> "raised"])

Prepare ==
  /\ phase = "called" /\ r.fp32Npu /\ ~Rejected
  /\ phase' = "layer"
  /\ data' = PreparedInput
  /\ layer' = 1 /\ direction' = 1
  /\ state' = [h |-> PreparedState("h"),
               c |-> IF r.lstm THEN PreparedState("c") ELSE None]
  /\ finalCell' = IF r.lstm THEN <<>> ELSE None
  /\ UNCHANGED <<request, at, hidden, cell, outputs, directionOutputs,
                 finalHidden, result>>

StateIndex == StateIndexOf(r, layer, direction)
InitialHidden == state.h[StateIndex]
InitialCell == IF state.c = None THEN None ELSE state.c[StateIndex]
Take(rows, n) == IF rows = None THEN None ELSE SubSeq(rows, 1, n)
Drop(rows, n) == IF rows = None THEN None ELSE SubSeq(rows, n + 1, Len(rows))
Join(rows, more) == IF rows = None THEN None ELSE rows \o more

\* A reverse run over a packed batch starts without rows.
RowsAtStart == IF r.form = "packed" /\ direction = 2 THEN 0 ELSE Batch

BeginDirection ==
  /\ phase = "layer" /\ Len(directionOutputs) < r.directions
  /\ phase' = "steps"
  /\ at' = 0
  /\ outputs' = <<>>
  /\ hidden' = Take(InitialHidden, RowsAtStart)
  /\ cell' = Take(InitialCell, RowsAtStart)
  /\ UNCHANGED <<request, data, layer, direction, state, directionOutputs,
                 finalHidden, finalCell, result>>

Steps == Len(data)
Loop == <<request, phase, data, layer, direction, state, directionOutputs,
          finalHidden, finalCell, result>>

DenseStep ==
  /\ phase = "steps" /\ r.form # "packed" /\ at < Steps
  /\ LET xs == data[IF direction = 1 THEN at + 1 ELSE Steps - at]
     IN  /\ hidden' = NextHidden(xs, hidden, cell)
         /\ cell' = NextCell(xs, hidden, cell)
         /\ outputs' = Append(outputs, hidden')
  /\ at' = at + 1
  /\ UNCHANGED Loop

MutWithEnded(next) == next
WithEnded(next) == IF cell = None THEN None ELSE next \o Drop(cell, Len(next))

\* Forward, the sequences that have ended keep their rows at the end.
PackedForwardStep ==
  /\ phase = "steps" /\ r.form = "packed" /\ direction = 1 /\ at < Steps
  /\ LET xs == data[at + 1]
         n == Len(xs)
         next == NextHidden(xs, Take(hidden, n), Take(cell, n))
     IN  /\ hidden' = next \o Drop(hidden, n)
         /\ cell' = WithEnded(NextCell(xs, Take(hidden, n), Take(cell, n)))
         /\ outputs' = Append(outputs, next)
  /\ at' = at + 1
  /\ UNCHANGED Loop

MutEntering(rows, have, n) == Take(rows, n - have)

\* Backward, sequences enter at their own last step, with their own rows.
Entering(rows, have, n) == Drop(Take(rows, n), have)

PackedReverseStep ==
  /\ phase = "steps" /\ r.form = "packed" /\ direction = 2 /\ at < Steps
  /\ LET xs == data[Steps - at]
         h == hidden \o Entering(InitialHidden, Len(hidden), Len(xs))
         c == Join(cell, Entering(InitialCell, Len(hidden), Len(xs)))
     IN  /\ hidden' = NextHidden(xs, h, c)
         /\ cell' = NextCell(xs, h, c)
         /\ outputs' = Append(outputs, hidden')
  /\ at' = at + 1
  /\ UNCHANGED Loop

InOrder == IF direction = 2 THEN Reverse(outputs) ELSE outputs

FinishDirection ==
  /\ phase = "steps" /\ at = Steps
  /\ phase' = "layer"
  /\ directionOutputs' = Append(directionOutputs, InOrder)
  /\ finalHidden' = Append(finalHidden, hidden)
  /\ finalCell' = IF finalCell = None THEN None ELSE Append(finalCell, cell)
  /\ direction' = direction + 1
  /\ UNCHANGED <<request, data, layer, at, state, hidden, cell, outputs, result>>

\* The directions side by side, and dropout between layers but not after the last.
Concatenated(dropped, s, p) ==
  [parts |-> [d \in 1 .. r.directions |-> directionOutputs[d][s][p]],
   dropped |-> dropped]

FinishLayer ==
  /\ phase = "layer" /\ Len(directionOutputs) = r.directions
  /\ data' = [s \in 1 .. Steps |-> [p \in DOMAIN data[s] |->
               Concatenated(r.dropout /\ layer < r.layers, s, p)]]
  /\ directionOutputs' = <<>>
  /\ direction' = 1
  /\ IF layer < r.layers THEN phase' = "layer" /\ layer' = layer + 1
     ELSE phase' = "finish" /\ UNCHANGED layer
  /\ UNCHANGED <<request, at, state, hidden, cell, outputs, finalHidden,
                 finalCell, result>>

Squeezed(rows) ==
  IF rows # None /\ r.form = "unbatched" THEN [i \in DOMAIN rows |-> rows[i][1]]
  ELSE rows

\* The output in the caller's layout and order, and the states in its order.
Finish ==
  /\ phase = "finish"
  /\ Answer([by |-> "fallback",
       output |->
         CASE r.form = "packed" -> FlattenSeq(data)
           [] r.form = "unbatched" -> Squeezed(data)
           [] r.form = "dense" -> IF r.batchFirst THEN Transpose(data) ELSE data,
       h |-> Squeezed(Permuted(finalHidden, UnsortedIndices)),
       c |-> Squeezed(Permuted(finalCell, UnsortedIndices))])

SequenceNext ==
  \/ Begin \/ Delegate \/ Reject \/ Prepare
  \/ BeginDirection \/ DenseStep \/ PackedForwardStep \/ PackedReverseStep
  \/ FinishDirection \/ FinishLayer \/ Finish
  \/ CallerTakesResult

SequenceSpec == SequenceInit /\ [][SequenceNext]_sequenceVars
-----------------------------------------------------------------------------
(***************************************************************************)
(* The reference: sequence s run alone.                                    *)
(***************************************************************************)
Alone(s) == [t \in 1 .. r.lengths[s] |-> X(s, t)]
StartOf(s) == [i \in 1 .. StateCount |-> Given("h", s, i)]

\* pad_packed_sequence and indexing: the output of sequence s at time t.
OutputOf(s, t) ==
  CASE r.form = "unbatched" -> result.output[t]
    [] r.form = "dense" ->
         IF r.batchFirst THEN result.output[s][t] ELSE result.output[t][s]
    [] r.form = "packed" ->
         Split(result.output, BatchSizes)[t]
           [CHOOSE p \in 1 .. Batch : SortedAt(p) = s]
FinalOf(rows, s, i) == IF r.form = "unbatched" THEN rows[i] ELSE rows[i][s]

Returned == phase = "returned" /\ result.by = "fallback"
-----------------------------------------------------------------------------
\* The loops keep their bounds and a direction has as many rows as it runs.
SequenceTypeOK ==
  /\ request \in Calls \cup {None}
  /\ phase \in {"idle", "called", "layer", "steps", "finish", "returned"}
  /\ phase = "idle" <=> request = None
  /\ phase # "idle" =>
       layer \in 0 .. r.layers /\ direction \in 0 .. r.directions + 1
  /\ phase = "steps" =>
       /\ at \in 0 .. Steps
       /\ Len(outputs) = at
       /\ cell # None => Len(cell) = Len(hidden)
       /\ \A s \in DOMAIN outputs :
            Len(outputs[s]) = Len(data[IF direction = 1 THEN s ELSE Steps + 1 - s])

\* Every output is what running its sequence alone gives at that time, in
\* whatever layout, order and company the caller passed it.
OutputsAreAlone ==
  Returned =>
    \A s \in 1 .. Batch :
      LET alone == ReferenceOutput(r, StartOf(s), Alone(s))
      IN  \A t \in DOMAIN alone : OutputOf(s, t) = alone[t]

\* The final states are those of the sequences run alone, of every layer and
\* direction, in the order the caller passed them.
StatesAreAlone ==
  Returned =>
    /\ result.c = None <=> ~r.lstm
    /\ \A s \in 1 .. Batch :
         LET alone == ReferenceFinal(r, StartOf(s), Alone(s))
         IN  \A i \in DOMAIN alone :
               /\ FinalOf(result.h, s, i) = alone[i]
               /\ r.lstm => FinalOf(result.c, s, i) = CellOf(alone[i])
=============================================================================
