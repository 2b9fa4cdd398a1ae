------------------------- MODULE SpikingRecurrent --------------------------
(***************************************************************************)
(* The spiking recurrent layers and their carried state                    *)
(* (src/spikingjelly_npu/activation_based/recurrent.py) under the package's*)
(* autocast contexts: a layer called, reset, detached and converted in any *)
(* order, inside and outside of contexts, and moved between devices, with  *)
(* a surrogate module that may raise in any step.  Rows are histories, as  *)
(* in RecurrentReference.                                                  *)
(***************************************************************************)
EXTENDS AutocastContext, RecurrentReference

CONSTANTS
  Layers,       \* the configurations of the layer
  Devices,      \* where the layer and its inputs may be
  Host,         \* the device autocast does not apply to: its type is "npu"
  MaxSteps,     \* Bound: inputs integrated between resets
  MaxDepth      \* Bound: contexts the caller has open

Kinds == {"rnn", "gru", "lstm"}
Dtypes == {"fp32", "bf16"}

\* _validate_constructor: a stateful layer has one direction.
ASSUME SpikingRecurrentAssumption ==
  /\ \A n \in Layers :
       /\ n.kind \in Kinds
       /\ n.layers \in Nat \ {0} /\ n.directions \in {1, 2}
       /\ {n.stateful, n.dropout} \subseteq BOOLEAN
       /\ ~(n.stateful /\ n.directions = 2)
  /\ MaxSteps \in Nat /\ MaxDepth \in Nat
  /\ \A s \in Contexts : s.dtype = "bf16"

VARIABLES
  net,        \* the configuration
  dtype,      \* of the parameters
  device,     \* of the parameters
  hx,         \* the carried state, or None
  call,       \* the call in progress, or None
  last,       \* the last call's request, outcome and output
  fed,        \* auxiliary: what hx has integrated since it was None
  plain       \* auxiliary: hx was computed, and not converted since, under an
              \* autocast that is not the profile

vars == <<context, net, dtype, device, hx, call, last, fed, plain>>

IsLstm == net.kind = "lstm"
States == net.layers * net.directions
NoResult == [request |-> None, outcome |-> "none", output |-> <<>>]

Init ==
  /\ ContextInit
  /\ net \in Layers
  /\ dtype = "fp32"
  /\ device \in Devices
  /\ hx = None
  /\ call = None
  /\ last = NoResult
  /\ fed = <<>>
  /\ plain = FALSE

(***************************************************************************)
(* Between calls.                                                          *)
(***************************************************************************)
ForgetResult == last' = NoResult

EnterContext ==
  /\ call = None /\ Len(frames) < MaxDepth
  /\ \E s \in Contexts : EnterAutocast(s) \/ EnterFails(s)
  /\ ForgetResult
  /\ UNCHANGED <<net, dtype, device, hx, call, fed, plain>>

LeaveContext ==
  /\ call = None
  /\ Leave
  /\ ForgetResult
  /\ UNCHANGED <<net, dtype, device, hx, call, fed, plain>>

MutReset == hx' = hx
ResetState == hx' = None

Reset ==
  /\ call = None
  /\ ResetState
  /\ fed' = <<>>
  /\ plain' = FALSE
  /\ ForgetResult
  /\ UNCHANGED <<context, net, dtype, device, call>>

Detach ==
  /\ call = None /\ hx # None
  /\ hx' = [hx EXCEPT !.attached = FALSE]
  /\ ForgetResult
  /\ UNCHANGED <<context, net, dtype, device, call, fed, plain>>

MutMoved(s, p) == s

\* What module.to(dtype) and module.to(device) make of the carried state.
Converted(s, d) == IF s = None THEN None ELSE [s EXCEPT !.dtype = d]
Moved(s, p) == IF s = None THEN None ELSE [s EXCEPT !.device = p]

\* The carried state follows the parameters, also to the type they have.
Apply ==
  /\ call = None
  /\ \/ /\ dtype' \in Dtypes
        /\ hx' = Converted(hx, dtype')
        /\ plain' = FALSE
        /\ UNCHANGED device
     \/ /\ device' \in Devices \ {device}
        /\ hx' = Moved(hx, device')
        /\ UNCHANGED <<dtype, plain>>
  /\ ForgetResult
  /\ UNCHANGED <<context, net, call, fed>>

(***************************************************************************)
(* A call: hx given, carried or zero.                                      *)
(***************************************************************************)
MutStateDtype(input) == input

\* The type a state has to have: FP32 under the BF16 profile.
StateDtype(input) == IF IsNpuBf16AutocastActive THEN "fp32" ELSE input

Start(where, d, p, n) ==
  LET rows(part) == [i \in 1 .. States |->
        Row(part, IF where = Zero THEN Zero ELSE <<where, i>>)]
  IN  [h |-> rows("h"), c |-> IF IsLstm THEN rows("c") ELSE None,
       dtype |-> d, device |-> p, batch |-> n, attached |-> FALSE]
ZeroState(q) == Start(Zero, StateDtype(q.dtype), q.device, q.batch)

\* An explicit state is well-formed or wrong in one way.
Explicit(q) == Start("given", StateDtype(q.dtype), q.device, q.batch)

Carries(q) == q.hx = "none" /\ net.stateful /\ hx # None

\* _validate_state_tensor, of the carried state.
Compatible(q) ==
  hx.batch = q.batch /\ hx.device = q.device /\ hx.dtype = StateDtype(q.dtype)

\* The inputs that were not integrated yet.
Inputs(q) == [t \in 1 .. q.steps |-> [nth |-> Len(fed) + t]]

Requests ==
  [steps : 1 .. 2, batch : 1 .. 2, dtype : Dtypes, device : Devices,
   hx : {"none", "given"}]

Raises(q, outcome) ==
  /\ last' = [request |-> q, outcome |-> outcome, output |-> <<>>]
  /\ call' = None
  /\ UNCHANGED <<net, dtype, device, hx, fed, plain>>

\* Not a dense 3-D tensor of input_size, no steps, or a malformed state.
Malformed ==
  /\ call = None
  /\ \E q \in Requests : Raises(q, "malformed")
  /\ UNCHANGED context

Refuse ==
  /\ call = None
  /\ \E q \in Requests : Carries(q) /\ ~Compatible(q) /\ Raises(q, "refused")
  /\ UNCHANGED context

Forward ==
  /\ call = None
  /\ \E q \in Requests :
       LET begin == IF q.hx = "given" THEN Explicit(q)
                    ELSE IF Carries(q) THEN hx ELSE ZeroState(q)
       IN  /\ Len(fed) + q.steps <= MaxSteps
           /\ Carries(q) => Compatible(q)
           /\ call' = [request |-> q, begin |-> begin, input |-> Inputs(q),
                       inputDtype |-> q.dtype, layer |-> 1, outputs |-> <<>>,
                       h |-> <<>>, c |-> <<>>, dtypes |-> {},
                       run |-> None, depth |-> Len(frames)]
  /\ last' = NoResult
  /\ UNCHANGED <<context, net, dtype, device, hx, fed, plain>>

(***************************************************************************)
(* One direction, step by step.  run is what _run_direction holds.         *)
(***************************************************************************)
Direction == Len(call.outputs) + 1
Index == StateIndexOf(net, call.layer, Direction)

RunDirection ==
  /\ call # None /\ call.run = None /\ Direction <= net.directions
  /\ call' = [call EXCEPT !.run =
       [h |-> call.begin.h[Index],
        c |-> IF IsLstm THEN call.begin.c[Index] ELSE None,
        dtype |-> call.begin.dtype, gates |-> "none", outputs |-> <<>>]]
  /\ UNCHANGED <<context, net, dtype, device, hx, last, fed, plain>>

Running == call # None /\ call.run # None /\ Len(call.run.outputs) < Len(call.input)

\* F.linear of an input and of the hidden state, which have to be where the
\* parameters are: autocast decides, or the types have to be theirs too.
Autocasts == torch.enabled /\ call.request.device # Host
LinearRaises ==
  \/ call.request.device # device
  \/ ~Autocasts /\ {call.inputDtype, call.run.dtype} # {dtype}
LinearDtype == IF Autocasts THEN "bf16" ELSE dtype

\* _fp32_recurrence_value.
RecurrenceDtype(d) == IF IsNpuBf16AutocastActive THEN "fp32" ELSE d

\* The gates reach the surrogate module; under the profile autocast is
\* disabled for it.
Affine ==
  /\ Running /\ call.run.gates = "none" /\ ~LinearRaises
  /\ call' = [call EXCEPT !.run.gates = RecurrenceDtype(LinearDtype)]
  /\ IF IsNpuBf16AutocastActive THEN EnterTorchDisabled ELSE UNCHANGED context
  /\ UNCHANGED <<net, dtype, device, hx, last, fed, plain>>

Promoted(a, b) == IF "fp32" \in {a, b} THEN "fp32" ELSE "bf16"
LeaveSurrogate ==
  IF Len(frames) > call.depth THEN Leave ELSE UNCHANGED context

Garbled == Row("garbled", Zero)

\* The GRU mixes the gates with the hidden state, the LSTM with the cell.
CellStep ==
  /\ Running /\ call.run.gates # "none"
  /\ LET run == call.run
         n == Len(run.outputs) + 1
         x == call.input[IF Direction = 1 THEN n ELSE Len(call.input) + 1 - n]
         d == IF net.kind = "rnn" THEN run.gates ELSE Promoted(run.gates, run.dtype)
         h == IF IsLstm /\ run.c # CellOf(run.h) THEN Garbled
              ELSE AfterReading(run.h, call.layer, Direction, <<x>>)
     IN  call' = [call EXCEPT !.run =
           [h |-> h, c |-> IF IsLstm THEN CellOf(h) ELSE None, dtype |-> d,
            gates |-> "none", outputs |-> Append(run.outputs, h)]]
  /\ LeaveSurrogate
  /\ UNCHANGED <<net, dtype, device, hx, last, fed, plain>>

\* Operators may raise, for their types or for want of memory, and so may the
\* surrogate; the exception leaves the context entered for it.
CellRaises ==
  /\ Running
  /\ Raises(call.request, "raised")
  /\ LeaveSurrogate

MutCollected(rows, row) == <<row>> \o rows
Collected(rows, row) == Append(rows, row)

EndDirection ==
  /\ call # None /\ call.run # None /\ ~Running
  /\ LET run == call.run
     IN  call' = [call EXCEPT !.run = None,
           !.outputs = Append(@, IF Direction = 1 THEN run.outputs
                                 ELSE Reverse(run.outputs)),
           !.h = Collected(@, run.h),
           !.c = Collected(@, run.c),
           !.dtypes = @ \cup {run.dtype}]
  /\ UNCHANGED <<context, net, dtype, device, hx, last, fed, plain>>

LayerOutput ==
  [t \in DOMAIN call.input |->
    [parts |-> [d \in 1 .. net.directions |-> call.outputs[d][t]],
     dropped |-> net.dropout /\ call.layer < net.layers]]
OutputDtype == IF "fp32" \in call.dtypes THEN "fp32" ELSE "bf16"

EndLayer ==
  /\ call # None /\ call.run = None /\ Direction > net.directions
  /\ call.layer < net.layers
  /\ call' = [call EXCEPT !.layer = @ + 1, !.input = LayerOutput,
                          !.inputDtype = OutputDtype, !.outputs = <<>>]
  /\ UNCHANGED <<context, net, dtype, device, hx, last, fed, plain>>

OutputState ==
  [h |-> call.h, c |-> IF IsLstm THEN call.c ELSE None, dtype |-> OutputDtype,
   device |-> call.request.device, batch |-> call.request.batch, attached |-> TRUE]

MutCommits(q) == q.hx = "none"

\* Only the state of a stateful layer called without one is carried on.
Commits(q) == net.stateful /\ q.hx = "none"

\* The call runs under an autocast context that is not the profile.
UnderPlain == Autocasts /\ ~IsNpuBf16AutocastActive

Return ==
  /\ call # None /\ call.run = None /\ Direction > net.directions
  /\ call.layer = net.layers
  /\ LET q == call.request
     IN  /\ hx' = IF Commits(q) THEN OutputState ELSE hx
         /\ fed' = IF net.stateful /\ q.hx = "none" THEN fed \o Inputs(q) ELSE fed
         /\ plain' = IF Commits(q) THEN UnderPlain ELSE plain
         /\ last' = [request |-> q, outcome |-> "returned", output |-> LayerOutput]
  /\ call' = None
  /\ UNCHANGED <<context, net, dtype, device>>

Next ==
  \/ EnterContext \/ LeaveContext
  \/ Reset \/ Detach \/ Apply
  \/ Malformed \/ Refuse \/ Forward
  \/ RunDirection \/ Affine \/ CellStep \/ CellRaises
  \/ EndDirection \/ EndLayer \/ Return

Spec == Init /\ [][Next]_vars
-----------------------------------------------------------------------------
StartRows == Start(Zero, "fp32", Host, 1).h

\* The state has its type; a layer that is not stateful carries nothing.
TypeOK ==
  /\ net \in Layers
  /\ dtype \in Dtypes /\ device \in Devices
  /\ hx # None =>
       net.stateful /\ Len(hx.h) = States /\ hx.dtype \in Dtypes /\ hx.batch \in 1 .. 2
  /\ call # None => call.layer \in 1 .. net.layers /\ Len(frames) \in {call.depth, call.depth + 1}
  /\ last.outcome \in {"none", "malformed", "refused", "raised", "returned"}

\* The carried state is that of one unbroken call over everything that was fed
\* since the last reset: calls that raised, calls with a state of their own,
\* detaching and conversions left no trace, and every layer has its own row.
CarriedIsUnbroken ==
  IF fed = <<>> THEN hx = None
  ELSE /\ hx.h = ReferenceFinal(net, StartRows, fed)
       /\ IsLstm => hx.c = [i \in 1 .. States |-> CellOf(hx.h[i])]

\* What a call returns is the rest of the unbroken call's output, or that of a
\* call from the state it was given.
OutputsAreUnbroken ==
  last.outcome = "returned" =>
    LET q == last.request
    IN  IF q.hx = "given"
        THEN last.output = ReferenceOutput(net, Start("given", "fp32", Host, 1).h, Inputs(q))
        ELSE IF net.stateful
        THEN LET whole == ReferenceOutput(net, StartRows, fed)
             IN  last.output = SubSeq(whole, Len(fed) - q.steps + 1, Len(fed))
        ELSE last.output = ReferenceOutput(net, StartRows, Inputs(q))

\* Under the profile every gate and every state is FP32, between steps and
\* between calls.
RecurrenceIsFP32 ==
  call # None /\ IsNpuBf16AutocastActive =>
    /\ call.begin.dtype = "fp32"
    /\ call.run # None => call.run.dtype = "fp32" /\ call.run.gates # "bf16"
    /\ call.dtypes \subseteq {"fp32"}

\* A carried state is refused only for another batch, for an input that is not
\* where the layer is, where BF16 inputs or parameters are in play, or if a
\* plain autocast context left it in BF16: moving the layer, and entering or
\* leaving the profile, never cost the state of an FP32 layer.
RefusedForAChange ==
  last.outcome = "refused" =>
    \/ hx.batch # last.request.batch
    \/ last.request.device # device
    \/ "bf16" \in {last.request.dtype, dtype}
    \/ plain /\ hx.dtype = "bf16"
=============================================================================
