# A verification of SpikingJelly NPU

TLA+ models of the parts of this repository whose correctness depends on the
order of events, on what is remembered between calls, on what is left behind
when something fails, or on two implementations agreeing, with the TLC runs that
check them and the TLAPS proofs of what matters most. Paths below are those of
the repository (`src/spikingjelly_npu/npu/graph.py`); `PROJECT.json` says line by
line which code each definition stands for.

## The system

A Python package that runs spiking neural networks on Ascend NPUs, a native
extension with fused neuron kernels, and the scripts that build and qualify it.

| Component | State it keeps | Operations | Interacts with |
|---|---|---|---|
| Graph runners (`npu/graph.py`) | captured graphs, the execution state they belong to, a poison, the last route | `__call__`, `reset_capture` | the caller's model (read through signatures, written while capturing), `torch.npu` |
| Capture transaction (`npu/graph.py`) | snapshots of the model | snapshot, launch, restore, finalize | called by both runners |
| Call signatures (`npu/graph.py`) | none | flatten a call, describe tensors, compare | the bucket runner |
| Memory modules (`activation_based/base.py`) | `_memories` and their reset values | set, reset, detach, move | every stateful neuron; saved by the capture |
| Neurons (`activation_based/neuron.py`) | potential `v`, sequence `v_seq` | single-step and multi-step forward | memory modules, native adapter |
| Native adapter (`activation_based/_aspy.py`, `spikingjelly_npu_aspy.py`) | the imported module and the kernels it bound, saved tensors of a graph | qualify a request, launch, validate, differentiate | neurons, FedSNN, native bridge |
| Capability routing (`routing.py`), native loader (`_native.py`) | a cached probe | find and load a bundle, probe it, describe a route | adapter, callers |
| Native bridge (`native/aspy/bridge`) | buffers in flight on a stream | check shapes, launch a kernel asynchronously | kernels |
| Host tilings and kernels (`native/aspy/op_host`, `op_kernel`) | global and local memory of the device | divide neurons over cores, integrate, differentiate | bridge |
| Spiking recurrent layers (`activation_based/recurrent.py`) | carried hidden state | forward, reset, detach, convert | autocast, surrogates |
| Sequence recurrent layers (`sequence/recurrent.py`) | none across calls | dense and packed forward | caller |
| FedSNN (`fedsnn.py`), Spikformer and layers | per-forward state | forward | neurons, adapter |
| Autocast (`npu/amp.py`), runtime (`npu/runtime.py`) | a context variable beside torch's, process settings | enter, leave, configure, query | recurrent layers, callers |
| Compatibility alias (`compat.py`) | `sys.modules` | install | import system |
| Build, qualification, benchmarks, install | files | command-line tools | the toolchain |

## Where it is hard, and what must hold

* **Graph runners.** A graph replays recorded device work on recorded addresses.
  Whether it still computes what the model would depends on everything the
  caller did since: modes, tensors, storages, values, submodules. *A replay is
  as good as one of a graph built now; a runner gives up no graph it could have
  kept, unless an interrupted capture moved versions; once a launch failed nothing
  runs again.*
* **Capture.** Capturing runs the model several times. All it wrote must be
  taken back by steps each of which may fail, while the restoring copies advance
  the buffers' versions. *Each category is back, or its own step failed; an
  exception that is not an interrupt names it; only a clean model yields a graph.*
* **Neurons.** A multi-step forward rebuilds the potential before the native
  call, gives the kernel a clone, and commits what it returned. *Each input is
  integrated exactly once or the state is untouched; eager execution never
  follows a launch; the route names what ran.*
* **Routing.** The adapter decides at import what it uses, the router probes it
  at every call, the public probe is cached, and the bundle may be replaced or
  repaired under all three, while an extension one of them imported may stay in
  `sys.modules`. *What is launched is what the bundle promises and
  what the report says; a request is refused only for a cause.*
* **Autograd glue.** Tensors travel by position through the forward kernel, the
  saved tensors, the outputs, the gradients and the backward kernel. *A kernel
  gets its own arguments.*
* **Kernels.** A row is padded, cut into tiles, dealt to concurrent cores with
  32-bit counters, and cropped; each backward kernel derives by hand what
  autograd derives. *Each neuron gets its own row; transfers are disjoint and
  aligned; the cores end; spikes, voltages and gradients are PyTorch's.*
* **Recurrent layers.** Carried state, packed batches that shrink and grow, two
  directions, permutations. *A sequence's outputs and final states are those of
  running it alone; what is carried is one unbroken call, whatever failed.*
* **Autocast.** Two states changed one after the other, left by exceptions.
  *What the package shows is what torch has in force; nothing is left behind.*
* **Bridge.** The kernel runs after the bridge returned. *What it uses lives
  until it ran.* (not modelled yet)

`PROJECT.json` lists under `hazards` the places where each of these bites.

## Modules and the code

### The graph runners

`GraphModel` is the caller's model and what `_GraphRunnerSafety` reads of it:
training flags, the determinism switch, hooks, the tensor object bound to each
name, each object's storage and version, and one replaceable submodule. The
signatures are operators (`TrainingCaptureRequested`, `RngSensitive`,
`StructureSignature`, `ExecutionState`); between two calls the caller switches a
mode, a hook or determinism, updates in place, rebinds, moves a storage, or
replaces the submodule. `writes` and `disturbed` are auxiliary. `writes` counts the
updates that were not undone by a capture, and so says what a version cannot.
`disturbed` holds the tensors that a capture which did not complete has put back
in place since the last one that did: their versions moved on although their
values did not, and no runner has recorded it (`DisturbInPlace`).

`GraphBuckets` extends it with `GraphBucketRunner`: `captures`, the tracked
execution state, `poisoned`, `last`. A call is one action per way it can end:
poisoned, unknown bucket, rejected, signature not readable, capture unavailable,
failed or interrupted, replay failed or interrupted, replayed. The caller's
thread runs the call to its end, so a call is atomic; the capture inside it is
taken apart in `GraphCapture`. `StaticGraph` is `StaticGraphRunner`, one slot
bound to an input signature, over the same `GraphModel`.

`GraphRouting` is what either promises: a result is one eager run or a replay of
a graph built in the present world; strict never runs eagerly; no call is served
after a failed launch. Both implement it, with the "world" mapped to modes,
objects, storages and update counts.

`GraphCapture` is `_make_graphed_callable` step by step: snapshots, the launch
during which the model's Python code may disturb anything, eight categories of
cleanup each of which may raise, the finalized structure, the outcome. Its
tensors are described relative to the snapshot.

### The neurons

`NeuronCall` is `BaseNode`, `IFNode`, `LIFNode`, `KLIFNode` and
`ParametricLIFNode` over `MemoryModule`. `v` and `vSeq` are references into
`heap`, so that in-place writes (a reset, a kernel scribbling on its input) are
seen through every alias; tensors without a reference are freed. A potential is
abstracted to the inputs integrated since the reset. A call under the `aspy`
backend is split where an exception can leave it:

| Action | Code |
|---|---|
| `MultiStepAsPy` | the snapshot of references |
| `RequireMasterParameter`, `Materialize` | the FP32 check of `k` or `w`, `v_float_to_tensor` |
| `Clone` | `_aspy_native_initial_state` |
| `FallBack` / `RaiseAndRestore` | a rejection before the launch, lenient / strict |
| `Launch`, `Commit` | the adapter call, then validation and commit |
| `RaiseAndRestore`, `RaiseUnhandled` | an exception the handler sees, or not |
| `EagerStep`, `EagerReturns`, `EagerRaises` | `_torch_multi_step_forward` |

### Routing and the autograd glue

`AsPyBundle` is what may be found on disk and what is concluded from it: the
direct import and the relocatable bundle of `_native.py` with the error of the
first step that fails, and `routing.py`'s probe of declared, legacy, malformed,
unloadable and absent extensions, with its cache. `imported` is what is left in
`sys.modules`: the extension is imported by name, so once one is there every later
load of this process returns it (`Found`), also when the adapter that asked for it
could not be imported, or when it was only probed. A direct import always leaves
it there; one loaded from the path of a bundle is left there if the interpreter
enters it itself (`registers`), as it does for extensions with single-phase
initialisation, which those of pybind11 before version 3 have. `AsPyKernels` is the positional
contract: for each of the seven kernel pairs, what the bridge takes and returns
and what the autograd functions of `spikingjelly_npu_aspy.py` unpack, save,
restore, return and pass. `NativeRouting` composes them into a call: one action
per operation (`TryIfMultiStep` ... `TryFedSNNDecayLif`), each the whole of the
function of that name in `_aspy.py`, from the qualification of the request over
the import of the adapter, its probe, the choice of a kernel and the conversion
of types to the launch and the validation of the result; `Backward` is a later
backward pass; `Environment` changes the installation, `Restart` the process.

### The kernels

`NativePartition` follows one fused IF forward through `_aspy.py` (`Route`), the
adapter (`Pad`, `Crop`), the bridge (`CheckSequence`), `op_host` (`TilingFunc`)
and `op_kernel` (`LoadTile`, `TimeStep`, `StoreFinal` of each core, interleaved
freely). Index arithmetic is modulo `Word`. The other kernels divide rows in the
same way (the backward kernel of KLIF with tiles of 2048).

`NeuronDynamics` is one neuron of a fused call in exact arithmetic.
`EagerDynamics` gives a step of each PyTorch neuron on dual numbers, a value and
its derivatives by every leaf, as autograd propagates them; `KernelDynamics` a
time step of the seven forward and seven backward kernels in the order of their
vector instructions; `Residues` the arithmetic: numbers are the residues of a
prime, so that sums, products and quotients are exact and two expressions that
agree at every sampled point do so because they are one rational function, as in
polynomial identity testing. `Forward` runs both implementations on one more
input, `Backward` the kernel's reverse loop one step. The loss is one output at
a time, and one mixture: the backward pass is linear in the loss.

### The recurrent layers and autocast

`RecurrentReference` says without loops over steps what a network computes for
one sequence; a row of a state tensor is its history, where it started and what
it was fed under which weights. `SequenceRecurrent` is one call of
`sequence/recurrent.py`, one action per loop iteration: the permutation of the
states, the split of the packed data, forward steps that drop rows, reverse
steps that add them, concatenation, and the way back. `SpikingRecurrent` is
`activation_based/recurrent.py`: carried, explicit and default states, layers and
directions, affine maps and steps each of which may raise, commit at the end,
reset, detach and `module.to`, to another type or another device. It extends
`AutocastContext`, `npu/amp.py`'s
context variable beside torch's own state, both restored by frames in inverse
order; under the profile a call enters torch's context for each step's surrogate,
above whatever the caller has open.

## Runs

| Run | Properties | Bounds |
|---|---|---|
| `graph_buckets_replay` | `TypeOK`, `ReplayFresh`, `CapturesKept`, `NothingRunsOncePoisoned`, `ImplementsRouting` | two buckets, a model of one buffer, two objects for it, a host and an NPU storage, one update per tensor, versions to 3, both objects disturbed |
| `graph_buckets_policy` | `ReplayOnSameModule`, `AdmissibleCaptures` | a strict runner, a parameter and a buffer, two modules, two successive submodules with distinct ids, versions to 2, one object disturbed |
| `graph_buckets_id_reuse` | *violated:* `ReplayOnSameModule` | three successive submodules, one id used twice |
| `graph_capture` | `BackOrReported`, `GraphedIsClean` | two parameters, three buffers with an alias, two memories, two devices, two disturbances, one failing step |
| `static_graph` | `ReplayFresh`, `CaptureKept`, `ImplementsRouting` | two inputs, a parameter of two objects and a buffer, one update per tensor, versions to 2, one object disturbed |
| `neuron_call` | `InputsFedOnce`, `FailedCallKeepsState`, `NoEagerAfterLaunch`, `RouteNamesWhatRan`, `ReadVoltagesKept` | KLIF, two shapes, single steps and sequences of two, three inputs between resets |
| `native_routing` | `TypeOK`, `RegionIsKernel`, `ConversionReported`, `OnlyPromisedKernels`, `KernelGetsItsArguments`, `ProbesAgree`, `RefusedForTheBundle` | nine installations, two of whose extensions leave `sys.modules`, for each operation all types, gradients, formats and single defects of a request |
| `native_routing_absent` | *violated:* `UnloadableIsNotAbsent` | three installations, one of which cannot be linked |
| `native_partition` | `RowsAreTheirNeurons`, `TransfersDisjoint`, `TransfersAligned`, `CallEnds` | tiles of 4, blocks of 2, three cores, words of 24, up to 20 values and 2 steps |
| `neuron_dynamics` | `ForwardIsEager`, `GradientIsAutograd` | P = 19, every operation and attribute, up to three steps of four inputs, three initial voltages, two parameters |
| `sequence_recurrent` | `SequenceTypeOK`, `OutputsAreAlone`, `StatesAreAlone` | two layers, two directions, packed batches of three sequences of up to three steps in every sorted order, dense and unbatched calls |
| `spiking_recurrent` | `TypeOK`, `CarriedIsUnbroken`, `OutputsAreUnbroken`, `RecurrenceIsFP32`, `RefusedForAChange`, `VisibleIsInForce`, `NothingLeftBehind` | four layers, two devices, three steps between resets, the profile, a plain and a disabled context, two of them open |

What the properties say in a sentence each stands above their definitions.

Why these bounds are enough. Two buckets are what it takes for one to change the
state another trusts; a second object per name for a rebinding, a second storage
for a move, a third version for a capture that restores after an update or after
another that was interrupted. The runner treats parameters and buffers alike but
for what a capture restores, so the run with two buckets has a buffer alone and
the other two have both. One disturbance and one failing step already reach every cleanup path; the second
disturbance lets categories interact. Two shapes are a match and a mismatch;
three inputs leave room for a carried potential, a call and a repeated call;
KLIF has every rule the other neurons have. The installations are one for each
way the probe can conclude; requests go wrong in one way at a time because the
checks are sequential and each ends the call. Five tiles on three cores give one
core two tiles, with full and short last tiles and with padding; two steps give
an address an earlier and a later row; a row of 20 is the longest whose last
tile ends within a word of 24. Three steps have a first, a middle and a last one
for a recursion of depth one; the samples include inputs that fire and that do
not, and voltages on both sides of the threshold. Three sequences of lengths to
three shrink and grow a batch by none, one and two rows, with ties. Two open
contexts with the one a call enters for its surrogate nest three deep.

Each property has a mutant, a definition changed as a bug would change it, that
TLC finds the property violated for; the mutants stand before the definitions
they change, named `Mut...`.

## Fairness

Only `NativePartition` states liveness. Each launched core makes progress
(`WF` per core: cores run independently and none waits for another) and so does
the host (`WF` on its next step: straight-line code). The other modules are
safety specifications: a caller need not call, no call waits, and each call is
a loop over data of known length.

## Proofs

Every theorem holds for all values of the constants that satisfy the named
assumptions of the modules. Each specification has an inductive invariant;
the lemmas before it are about the operators.

| Module | Theorem | Property |
|---|---|---|
| `GraphBucketsProofs` | `TypeCorrect`, `FreshReplays`, `PoisonHolds` | `TypeOK`, `ReplayFresh`, `NothingRunsOncePoisoned` |
| | `FreshModules` | `ReplayOnSameModule`, if successive submodules have distinct ids |
| | `KeepsCaptures`, `OnlyAdmissible` | `CapturesKept`, `AdmissibleCaptures` |
| | `Implements` | `GraphRouting`, by a step-by-step refinement |
| `StaticGraphProofs` | `FreshReplays`, `KeepsCapture` | `ReplayFresh`, `CaptureKept` |
| | `Implements` | `GraphRouting` with one bucket |
| | `EveryCategoryBackOrReported`, `GraphedModelsAreClean` | `BackOrReported`, `GraphedIsClean` of `GraphCapture` |
| `NeuronCallProofs` | `FeedsOnce`, `FailureKeepsState` | `InputsFedOnce`, `FailedCallKeepsState` |
| | `NoLateFallback`, `RouteIsTrue`, `VoltagesStay` | `NoEagerAfterLaunch`, `RouteNamesWhatRan`, `ReadVoltagesKept` |
| `NativeRoutingProofs` | `TypeCorrect`, `RouteNamesKernel`, `LaunchesArePromised` | `TypeOK`, `RegionIsKernel`, `OnlyPromisedKernels` |
| | `TrafficIsReported`, `RefusalHasCause`, `ProbesOfOneExtensionAgree` | `ConversionReported`, `RefusedForTheBundle`, `ProbesAgree` |
| | `KernelsGetTheirArguments` | `KernelGetsItsArguments` |
| `NativePartitionProofs` | `AlignedTransfers` | `TransfersAligned` |
| | `DisjointTransfers`, `OwnRows` | `TransfersDisjoint`, `RowsAreTheirNeurons`, if `RowsFitWord` |
| `NeuronDynamicsProofs` | `TypeCorrect`, `ForwardAgrees`, `GradientsAreAutograd` | `TypeOK`, `ForwardIsEager`, `GradientIsAutograd` |
| `RecurrentProofs` | `TypeCorrect`, `CarriedStateIsUnbroken`, `CallsOutputIsUnbroken` | `TypeOK`, `CarriedIsUnbroken`, `OutputsAreUnbroken` |
| | `VisibleIsTrue`, `ContextsLeaveNothing`, `ProfileKeepsFP32`, `OnlyAChangeIsRefused` | `VisibleIsInForce`, `NothingLeftBehind`, `RecurrenceIsFP32`, `RefusedForAChange` |
| | `SequenceTypeCorrect` | `SequenceTypeOK` of `SequenceRecurrent` |
| | `OutputsAreThoseAlone`, `StatesAreThoseAlone` | `OutputsAreAlone`, `StatesAreAlone` of `SequenceRecurrent` |

*The graph runners.* `ReplayFresh` is not inductive: it speaks of the replay
that just happened, while the danger is in the captures still held.
`GraphModelProofs` defines when a capture agrees with a tracked state: on modes,
objects and storages, and a tensor that is not disturbed has the version tracked
for it exactly as long as nothing updated it since the capture was built. That the equivalence is
exact gives both directions: a replay is fresh (`AgreementIsFreshness`), and a
capture that is dropped had ceased to be, or a tensor of the model is disturbed
(`DropHasCause`): of a disturbed tensor only one direction holds, as its version
may have moved on without an update. Agreement survives
the capture of another bucket, although it advances versions, because the runner
tracks the state after the restoration (`Monotone`). `StaticGraphProofs` uses the
same lemmas. The assumption `DistinctIdentities` is for `FreshModules` alone; the
run `graph_buckets_id_reuse` shows it is needed.

*The capture.* `BackOrReported` compares the model a capture leaves with the one
it found, after a list of cleanup steps each of which runs once and may raise.
The invariant says of the steps behind the cleanup that each has raised or its
category is back (`Progress`); what has raised is named in the error unless an
interrupt is on its way out (`Reported`); what carries it is that no step takes back what is
back already, whether it succeeds itself or not (`RestoreKeeps`). The structure
is the exception: other steps change it, and it is recorded by the last step.

*The neurons.* The properties speak of a call that has ended. The invariant
follows it: what the potential holds at each stage (`EagerCall`, `NativeCall`),
that nothing the neuron had before is written until the result is committed
(`Untouched`), and that a tensor is allocated exactly if something refers to it
(`Tidy`), so that no allocation hands out a tensor in use. `EnoughTensors`
assumes four tensors of a step and three sequences, the most a call holds.

*Routing.* Three parties look at an extension at different times. `Origins` says
what each of them holds was computed from an extension; `AdapterReports`, that
the adapter's own account of its bindings and the probe of its extension are the
same. Every decision taken at import is then one the router would take now. An
extension that stays in `sys.modules` once loaded is the one everybody is given
from then on (`OneStays`). `Contract`
is the positional agreement for one autograd function; it is proved for each of
the seven from their tables, and a call or a backward pass adds to the launched
kernels only what a contract covers.

*The partition.* `StructInv` (`HostInv`, `CoresInv`) is the arithmetic: tiles
cover the padded row, core b has the tiles k with k % cores = b, transfers are
multiples of a block. `DataInv` says what has been written to global memory and
what a core has in its local memory. `RowsFitWord` excludes rows within a tile of
a word's end, where the code's `start + length` wraps (see below).

*The dynamics.* Equal voltages and an input give equal spikes and voltages for
each operation (`StepAgrees`), the division by the time constant being the
multiplication by its reciprocal.

The gradients rest on one balance per step (`StepBalances`). Let the loss depend
on the spike and the potential a step leaves by the gradients given for this time
and by the carry; its derivative by any leaf through these outputs is then its
derivative through the sources of the step, the input, the potential before and
the parameter, each weighed with what the backward kernel returns for it. It
follows from how the spike, the charge and the reset of each neuron depend on
their arguments (`SpikeTangent`, `LifChargeTangent`, `PlifChargeTangent`,
`KlifChargeTangent`, `PlainResetTangent`, `ScaledResetTangent`). Those are
identities between long expressions of residues. `Stands(e, i)` says that e is
the residue of the integer i; it goes through sums, differences and products, so
an identity of residues is one of the integers, which the solver knows; quotients
become products with a reciprocal, of which there is one. What autograd returns
for a leaf is the sum of the contributions of all steps; the invariant (`Balanced`)
splits it, in the middle of the reverse loop, into the contributions of the steps
to come, what is carried times the derivative of the potential it belongs to, and
what the leaf has been given so far. A backward step moves its own contribution
and the carry by the balance; at the end only what was given is left, and the
carry, which is the gradient of the initial voltage. The invariant needs to know
that each kept step was the eager one from the potential the step before left
(`Ran`), and that no gradient is given for a sequence that was not returned
(`LossOK`). It was checked by TLC with two steps before it was proved.

`ResiduesAssumption` asks that every residue but zero has a reciprocal, that P is
more than 2 and that -1 has no root. The last is the denominator of the ATan
surrogate, 1 + a * a, which is not zero over the reals either. Primes P with
P % 4 = 3 satisfy all three. The gradients given are those of `Losses`: one output
at a time, and a mixture. The proof uses no more of them than `LossOK`.

*The contexts.* A frame restores what it found. Frames above none but package
frames restore two states that agree (`FramesAgree`), the frame at the bottom
restores the defaults (`BottomFrame`), and every frame a call pushed restores the
profile it began under (`CallKeeps`). That the carried state of an FP32 layer is
refused only after a plain autocast context, or for another batch or device or for
BF16 inputs (`OnlyAChangeIsRefused`), is proved for every mixture of the profile,
plain and disabled contexts; `plain` is auxiliary and says that the state was
computed under a plain one. Its invariant adds that a frame beyond the caller's is
open only under the profile (`FramesInv`), and, unless a plain context is in force,
the types of what a call holds (`TypesInv`). The contexts' type is BF16
(`SpikingRecurrentAssumption`), and `None` is not one of the model's records
(`NoneIsNoRecord`).

*The recurrent layers.* A row is its history, so an invariant can say what every
tensor holds in the middle of a loop: the running direction has read the first
so many of the layer's inputs in its own order (`RunHistory`), the directions and
layers before it are what the reference gives (`DirectionsHistory`,
`FinalHistory`), and what is carried is the whole of the stream since the reset
(`CarriedHistory`). That a committed call makes the carried history longer by its
own inputs is a fact about the reference alone: a forward network over xs and
then ys is the network over xs \o ys (`LayersSplit`, `FinalSplit`, `OutputSplit`).
It holds for one direction, and the model carries state for no other.
The reference recurs over layers. Induction over them is done on a set of
naturals, by its least element (`NatInductionOnSet`), because the library's
induction theorems take an operator; `NoneIsNoRecord` says that `None` is not one
of the model's records.

*Packed and dense runs.* The invariant `SequenceInv` gives every tensor of the
eager loops in terms of the sequence in each row. A batch sorted by length has an
order in which the sequence of row p is in the first `OwnSteps(q, p)` steps, so
the rows of a step are an interval from the first row on (`Shape`); a forward run
loses rows at its end, a reverse one gets them there. After k steps row p has read
`ReadsAt(q, d, p, k)` of its inputs: forwards k until its sequence ends, backwards
what k exceeds the steps before it entered. A step therefore feeds every row it
works on the next input of its own sequence (`RowAdvances`), and what it leaves
are the rows of the next count (`ForwardHidden`, `BackwardHidden`). A packed input
is cut at the sums of its batch sizes, which undoes the flattening
(`SplitOfFlat`), and the inverse permutation finds each sequence's row
(`RowOfIsOnlyOne`, `Unsorted`). `SequenceRecurrentAssumption` says what
`pack_padded_sequence` makes: no empty sequence, an order that is a permutation,
the longest first. The theorems assume of `None`, which stands for "no tensor",
that it is no sequence (`NoneIsNoSequence`).

*Only model-checked:* `CallEnds`, as liveness is out of the prover's reach. Every
other property of a passing run is proved.

## Findings

Each is a run that ends in a violation; `PROJECT.json` quotes the sentence the
code departs from.

1. The structure signature keeps `id(module)` without a reference to the module
   (`npu/graph.py:515`, run `graph_buckets_id_reuse`).
2. A complete bundle whose extension raises `ImportError` while it is loaded is
   reported as absent, not as unloadable (`_native.py:94`, run
   `native_routing_absent`).

Noted while reading; the models follow the code in each:

* Launches catch `Exception`: an interrupt (`KeyboardInterrupt`, `SystemExit`)
  leaves a graph runner unpoisoned, where `docs/sequence-acceleration-contract.md:168`
  says any exception poisons it, and the cleanup failures collected are named in
  no error (`npu/graph.py:976`): `BackOrReported` promises a report for captures
  that return or fail only. An interrupted capture also restores buffers and
  parameters in place, which advances their versions, while the runner keeps the
  state it tracked before (`npu/graph.py:1198`): its next call drops the graphs of
  all buckets, fresh as they are. `CapturesKept` admits that loss and no other.
* `StaticGraphRunner` binds the next input after a change of the execution state
  (`npu/graph.py:1256`).
* Every optimizer step moves versions, so a training graph is captured again
  after each; plain attributes and writes through `.data` are in no signature;
  memories are not part of the execution state.
* The neurons' handler starts after the potential was rebuilt (`neuron.py:255`);
  an eager step that raises leaves the potential charged; a potential read
  without gradient is zeroed in place by the next reset, as documented, and so is
  one read with a gradient if the neuron was detached before (the detached tensor
  shares its storage), so that `ReadVoltagesKept` speaks of `v_seq` alone; IF, LIF
  and PLIF run single steps eagerly even when strict.
* A request without neurons is not rejected before the bridge (`_aspy.py:430`).
* The end of a kernel tile wraps for rows within 4096 values of 2^32
  (`op_kernel/as_py_if_forward.cpp:51`); no such row fits the device.
* The adapter reads the PLIF symbols without a default at import
  (`spikingjelly_npu_aspy.py:41`), so a legacy bundle with IF and LIF alone cannot
  be imported, although the probe would report its two operations.
* Eager LIF divides by `tau`; its kernel multiplies by the reciprocal, though a
  comment says it matches the eager order (`op_kernel/as_py_lif_forward.cpp:93`),
  and the straight-through sum of a surrogate need not be exactly 0 or 1. Both
  are rounding, which `Residues` does not have.
* PLIF's kernel copies a block of 32 bytes from a reciprocal time constant of
  one element, where KLIF's `k` is expanded to eight.
* An LSTM with projection leaves a BF16 hidden state under the BF16 profile
  (`sequence/recurrent.py:176`, against the docstring at line 6).
* A stateful `SpikingRNN` with FP32 parameters, called with FP32 inputs under a
  plain `autocast(dtype=bf16)`, leaves a BF16 state that its next unchanged call
  refuses, with an error that speaks of a new batch shape, device, or dtype
  (`activation_based/recurrent.py:544`); `RefusedForAChange` names this case.
  `module.to` may fail after `hx` moved.
* `configure_npu` sets the device last and takes nothing back if that fails
  (`npu/runtime.py:180`); the compatibility alias is installed before the CUDA
  shim is imported (`compat.py:98`).

## Abstractions

* A tensor is what the properties tell apart: the inputs it integrated, the
  neuron it belongs to, the history of its row, or a residue. Devices, formats
  and types appear where a check reads them.
* An attribute is present exactly if it can be called; extensions named by
  `SPIKINGJELLY_NPU_ASPY_EXTENSION` and adapters without `_native` are left out;
  a mismatch of devices is one of the shape defects of `NativeRouting`; one gradient
  is pending. Every installation has a path of its own: a library overwritten while
  the process has it mapped belongs to the dynamic linker.
* `NeuronDynamics` follows one neuron. The lanes a row is padded with have no
  loss and add nothing to the gradient of a parameter; `k` is not zero.
* RNN activations and GRU differ from one another in the arithmetic of an
  element; a cell extends a history. `SpikingRecurrent` has one surrogate frame
  for the gates of a step and does not tell layouts of the batch apart.

## Plan

1. `BridgeQueue`: asynchronous launches, the stream, the allocator, and the
   lifetime of what a launch captures.
2. `KernelPipes`: the queues and barriers between the copy and vector pipes of
   one core.
3. `CallSignature`: which calls select one bucket (aliases, storage groups).
4. `RuntimeConfig`, `CompatAlias`: process settings changed in several steps.
5. FedSNN's packed evaluation against its stepwise one.

## Not modelled

Rounding; the encoder and networks of FedSNN, Spikformer, the sequence
transformer, the stateless layers and surrogates other than ATan (tensor
expressions without control of their own); single-step recurrent cells (no state)
and constructors; `configure_npu`, the alias and the capability queries
(straight-line code); benchmarks, qualification, build and installation (tools
around the toolchain). `PROJECT.json` says so per component.
