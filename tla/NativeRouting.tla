--------------------------- MODULE NativeRouting ---------------------------
(***************************************************************************)
(* The native backend of the neurons: a request is qualified, the adapter  *)
(* imported and probed, a kernel run and its result validated              *)
(* (src/spikingjelly_npu/activation_based/_aspy.py, the adapter            *)
(* src/spikingjelly_npu_aspy.py), and later its gradients are computed.    *)
(*                                                                         *)
(* The adapter decides at import which kernels it will use and stays in    *)
(* sys.modules until the process ends; the extension it was imported from, *)
(* or that a probe or a failed import of the adapter has loaded, may stay  *)
(* there too; the router probes the adapter at each call; the public probe *)
(* is cached on its own; the installation may change under all of them.    *)
(* A call runs to its end on the caller's thread.                          *)
(***************************************************************************)
EXTENDS AsPyBundle, AsPyKernels, FiniteSets

CONSTANTS
  Requests,     \* the requests considered
  Steps,        \* time steps of an input sequence
  Neurons,      \* neurons of one step
  NoAdapter,    \* the adapter is not imported
  NoGraph,      \* no gradient is pending
  NoRequest     \* the last step was no request

Operations == {"if", "lif", "plif", "klif", "fedsnn_decay_lif"}
Dtypes == {"fp32", "bf16"}
Formats == {"nd", "ncdhw", "other"}

ASSUME NativeRoutingAssumption ==
  /\ \A r \in Requests :
       /\ r.op \in Operations
       /\ r.requested \in {"aspy", "cupy"}
       /\ {r.store, r.strict, r.grad} \subseteq BOOLEAN
       /\ {r.dtype, r.stateDtype} \subseteq Dtypes
       /\ {r.format, r.converted} \subseteq Formats
  /\ Steps \in Nat \ {0}
  /\ Neurons \in Nat \ {0}

VARIABLES
  adapter,      \* what the adapter bound at its import
  adapterFrom,  \* the installation it was imported from
  last,         \* the last call, and what it found and did
  graph         \* what a backward pass of the last native output needs

vars == <<bundle, adapter, adapterFrom, last, graph>>

Idle ==
  [request |-> NoRequest, outcome |-> "none", reason |-> "none",
   launched |-> <<>>, region |-> "none", received |-> <<>>, used |-> {},
   bytes |-> 0, traffic |-> 0]

(***************************************************************************)
(* The adapter.                                                            *)
(***************************************************************************)
Compact(op) == IF op = "if" THEN "if_compact" ELSE "lif_compact"
Required == UNION {Pair(g) : g \in {"if", "lif", "plif"}}

MutBindsCompact(x) ==
  [native |-> x,
   compact |-> {op \in {"if", "lif"} : <<Compact(op), "forward">> \in x.callable},
   optional |-> {g \in {"klif", "fedsnn_decay_lif"} : Pair(g) \subseteq x.callable}]

\* What the import binds: the required symbols are attributes of the
\* extension, the others may be missing.
Bind(x) ==
  [native |-> x,
   compact |-> {op \in {"if", "lif"} :
                  /\ Supports(ProbeLoaded(x), Compact(op))
                  /\ Pair(Compact(op)) \subseteq x.callable},
   optional |-> {g \in {"klif", "fedsnn_decay_lif"} : Pair(g) \subseteq x.callable}]

ASSUME NoAdapterAssumption ==
  \A i \in Installations : Bind(i.module) # NoAdapter

ImportError(i, s) ==
  IF LoadError(i, s) # "none" THEN LoadError(i, s)
  ELSE IF Required \subseteq Found(i, s).module.callable THEN "none"
  ELSE "AttributeError"

\* The adapter as a module to probe: the metadata functions and its own symbols.
Exports(a) == [a.native EXCEPT !.callable = @ \cap (Known \X Directions)]

MutAdapterCapabilities(a) ==
  LET own == ProbeLoaded(Exports(a))
  IN  IF Available(own) THEN own ELSE Legacy(Exports(a))

AdapterCapabilities(a) ==
  LET own == ProbeLoaded(Exports(a))
  IN  IF Available(own) THEN own ELSE ProbeLoaded(a.native)

MutLoadExtension(a, i, s) ==
  IF a # NoAdapter THEN a
  ELSE IF ImportError(i, s) = "none" /\ (probe # None => Available(probe))
  THEN Bind(Found(i, s).module) ELSE NoAdapter

\* The next request tries a failed import again; but the extension it loaded,
\* if any, may have stayed in sys.modules (Loaded).
LoadExtension(a, i, s) ==
  IF a # NoAdapter THEN a
  ELSE IF ImportError(i, s) = "none" THEN Bind(Found(i, s).module) ELSE NoAdapter

\* The kernel each function of the adapter runs.
IfMultiStep(a, r) ==
  IF ~r.store /\ "if" \in a.compact THEN "if_compact" ELSE "if"
LifMultiStep(a, r) ==
  IF ~r.store /\ "lif" \in a.compact THEN "lif_compact" ELSE "lif"
PlifMultiStep(a, r) == "plif"
KlifMultiStep(a, r) == IF "klif" \in a.optional THEN "klif" ELSE "none"
FedSNNDecayLif(a, r) ==
  IF "fedsnn_decay_lif" \in a.optional THEN "fedsnn_decay_lif" ELSE "none"
Implementation(a, r) ==
  CASE r.op = "if" -> IfMultiStep(a, r)     [] r.op = "lif" -> LifMultiStep(a, r)
    [] r.op = "plif" -> PlifMultiStep(a, r) [] r.op = "klif" -> KlifMultiStep(a, r)
    [] r.op = "fedsnn_decay_lif" -> FedSNNDecayLif(a, r)

(***************************************************************************)
(* Qualifying a request.  defect names the one thing wrong with it, "none" *)
(* if nothing; format and converted are the physical formats of the        *)
(* tensors before and after the conversion to FP32.                        *)
(***************************************************************************)
ScalarDefects == {"surrogate", "threshold", "reset", "alpha"}
TensorDefects == {"device", "dtype", "no_steps", "layout"}
UnsupportedStateful(r) ==
  \/ r.defect \in TensorDefects \cup {"state_device", "state_layout", "state_shape"}
  \/ r.stateDtype \notin {r.dtype, "fp32"}
  \/ r.format # "nd"
  \/ r.defect \in ScalarDefects
UnsupportedStateless(r) ==
  r.defect \in TensorDefects \cup {"no_neurons", "surrogate"}

Unsupported(r) ==
  CASE r.op = "if"   -> UnsupportedStateful(r)
    [] r.op = "lif"  -> UnsupportedStateful(r) \/ r.defect = "tau"
    [] r.op = "plif" -> UnsupportedStateful(r) \/ r.defect = "scalar"
    [] r.op = "klif" -> UnsupportedStateful(r) \/ r.defect \in {"tau", "scalar"}
    [] r.op = "fedsnn_decay_lif" ->
         UnsupportedStateless(r) \/ r.defect \in {"decay", "threshold", "alpha"}

Physical(r) == IF r.dtype = "fp32" THEN r.format ELSE r.converted
Copyable(format) == format \in {"nd", "ncdhw"}
BridgeSafe(r) ==
  IF r.op = "fedsnn_decay_lif" THEN Copyable(Physical(r)) ELSE Physical(r) = "nd"

(***************************************************************************)
(* The boundary between public dtypes and the FP32 kernels.                *)
(***************************************************************************)
Width(dtype) == IF dtype = "fp32" THEN 4 ELSE 2
Sequence == Steps * Neurons

\* The tensors given to the kernel, with their sizes.
Inputs(r) ==
  {[name |-> "x", dtype |-> r.dtype, size |-> Sequence]} \cup
  IF r.op = "fedsnn_decay_lif" THEN {}
  ELSE {[name |-> "v", dtype |-> r.stateDtype, size |-> Neurons]}

Bytes(t) == t.size * (Width(t.dtype) + Width("fp32"))
Converted(r) == {t \in Inputs(r) : t.dtype # "fp32"}
Total(s) ==
  (IF \E t \in s : t.name = "x" THEN Bytes(CHOOSE t \in s : t.name = "x") ELSE 0)
  + (IF \E t \in s : t.name = "v" THEN Bytes(CHOOSE t \in s : t.name = "v") ELSE 0)

MutPrecisionPlan(r) ==
  IF r.dtype = "fp32" THEN 0
  ELSE Total(Inputs(r)) + Sequence * (Width("fp32") + Width(r.dtype))

\* What the plan, made before anything is converted, reports ...
PrecisionPlan(r) ==
  IF r.dtype = "fp32" THEN 0
  ELSE Total(Converted(r)) + Sequence * (Width("fp32") + Width(r.dtype))

\* ... and what is moved: the inputs that are not FP32 before the kernel,
\* the spikes after it if the public dtype is not the native one.
ToNativeFp32(r) == Total(Converted(r))
PublicResult(r) ==
  IF r.dtype = "fp32" THEN 0 ELSE Sequence * (Width("fp32") + Width(r.dtype))

(***************************************************************************)
(* Routing one request.                                                    *)
(***************************************************************************)
\* Why a qualified request is not run by adapter a, or "none".
Refusal(r, a) ==
  IF a = NoAdapter THEN FailedCapabilities(ImportError(installed, imported)).reason
  ELSE IF ~Supports(AdapterCapabilities(a), r.op) THEN "unsupported_bundle"
  ELSE IF r.op = "fedsnn_decay_lif" /\ r.op \notin a.optional
  THEN "missing_adapter_flag" ELSE "none"

\* Why the request itself is not qualified, or "none".
RequestReason(r) ==
  IF Unsupported(r) THEN "unsupported_request"
  ELSE IF r.op = "fedsnn_decay_lif" /\ ~Copyable(r.format) THEN "unsupported_format"
  ELSE IF ~BridgeSafe(r) THEN "unsupported_converted_format" ELSE "none"

ExecutedCapability(r, a) ==
  IF ~r.store /\ r.op \in {"if", "lif"}
     /\ Supports(AdapterCapabilities(a), Compact(r.op))
  THEN Compact(r.op) ELSE r.op

\* Routes.  Constructing one that is not admitted raises, whatever ran before.
TorchRoute(r) ==
  [requested |-> r.requested, actual |-> "torch", strict |-> FALSE,
   accelerated |-> FALSE, attempted |-> FALSE]
AcceleratedRoute(r) ==
  [requested |-> r.requested, actual |-> "aspy", strict |-> r.strict,
   accelerated |-> TRUE, attempted |-> TRUE]
StrictRejection(r) ==
  [requested |-> r.requested, actual |-> "none", strict |-> TRUE,
   accelerated |-> FALSE, attempted |-> FALSE]

Admitted(t) ==
  CASE t.actual = "none" ->
         /\ t.strict /\ ~t.accelerated /\ ~t.attempted
         /\ t.requested \in {"vendor", "aspy", "auto", "npu", "cupy"}
    [] t.actual = "torch" -> ~t.accelerated /\ ~t.attempted
    [] t.actual = "aspy" ->
         /\ t.accelerated /\ t.attempted
         /\ t.requested \in {"aspy", "auto", "npu", "cupy"}
Outcome(t) ==
  IF ~Admitted(t) THEN "invalid_route"
  ELSE CASE t.actual = "none"  -> "rejected"
         [] t.actual = "torch" -> "torch"
         [] t.actual = "aspy"  -> "native"

MutFallsBackLate(r, reason) ==
  last' = [Idle EXCEPT
    !.request = r, !.reason = reason, !.launched = <<r.op, "forward">>,
    !.outcome = Outcome(IF r.strict THEN StrictRejection(r) ELSE TorchRoute(r))]

\* Nothing runs natively: PyTorch does, or a strict request is rejected.
FallBackOrReject(r, reason) ==
  last' = [Idle EXCEPT
    !.request = r, !.reason = reason,
    !.outcome = Outcome(IF r.strict THEN StrictRejection(r) ELSE TorchRoute(r)),
    !.bytes = IF reason \in {"unsupported_request", "unsupported_format"}
              THEN 0 ELSE PrecisionPlan(r)]

Launched(r, a) ==
  [Idle EXCEPT !.request = r, !.launched = <<Implementation(a, r), "forward">>,
               !.traffic = ToNativeFp32(r) + PublicResult(r)]

\* The result of a kernel is validated before anything is returned: one with
\* a wrong type, shape, dtype, layout or format raises, as a failed launch does.
RaisesAfterLaunch(r, a) ==
  /\ last' = [Launched(r, a) EXCEPT !.outcome = "raised"]
  /\ graph' = NoGraph

ReturnsNative(r, a) ==
  /\ last' = [Launched(r, a) EXCEPT
       !.outcome = Outcome(AcceleratedRoute(r)), !.region = ExecutedCapability(r, a),
       !.bytes = PrecisionPlan(r)]
  /\ graph' = IF ~r.grad THEN NoGraph
              ELSE [kernel |-> Implementation(a, r), store |-> r.store,
                    context |-> SavedTensors(Implementation(a, r))]

\* Bound: the caller keeps one output, so that one gradient can be pending.
Try(r) ==
  \/ /\ RequestReason(r) # "none"
     /\ FallBackOrReject(r, RequestReason(r))
     /\ graph' = NoGraph
     /\ UNCHANGED <<bundle, adapter, adapterFrom>>
  \/ LET a == LoadExtension(adapter, installed, imported) IN
     /\ RequestReason(r) = "none"
     /\ adapter' = a
     /\ adapterFrom' = IF a # adapter THEN Found(installed, imported) ELSE adapterFrom
     /\ imported' = IF adapter # NoAdapter THEN imported ELSE Loaded(installed, imported)
     /\ \/ /\ Refusal(r, a) # "none"
           /\ FallBackOrReject(r, Refusal(r, a))
           /\ graph' = NoGraph
        \/ /\ Refusal(r, a) = "none"
           /\ RaisesAfterLaunch(r, a) \/ ReturnsNative(r, a)
     /\ UNCHANGED <<installed, probe, probed>>

TryIfMultiStep == \E r \in Requests : r.op = "if" /\ Try(r)
TryLifMultiStep == \E r \in Requests : r.op = "lif" /\ Try(r)
TryPlifMultiStep == \E r \in Requests : r.op = "plif" /\ Try(r)
TryKlifMultiStep == \E r \in Requests : r.op = "klif" /\ Try(r)
TryFedSNNDecayLif == \E r \in Requests : r.op = "fedsnn_decay_lif" /\ Try(r)

(***************************************************************************)
(* Gradients.  The voltages are not an output of the neuron unless stored. *)
(***************************************************************************)
Differentiable(g) ==
  {PublicOutputs(g.kernel)[i] : i \in DOMAIN PublicOutputs(g.kernel)}
    \ (IF g.store THEN {} ELSE {"v_seq"})

\* used: the outputs a gradient arrives for.  A gradient of a gradient, or a
\* tensor that is not ND (FedSNN copies its own), raises before the launch.
Backward ==
  /\ graph # NoGraph
  /\ \E used \in SUBSET Differentiable(graph) \ {{}}, again \in BOOLEAN,
        format \in Formats :
       LET refused == again \/ (format # "nd" /\ graph.kernel # "fedsnn_decay_lif")
       IN  last' = [Idle EXCEPT
             !.outcome = IF refused THEN "raised" ELSE "gradient",
             !.launched = IF refused THEN <<>> ELSE <<graph.kernel, "backward">>,
             !.received = IF refused THEN <<>>
                          ELSE Received(graph.kernel, graph.context, used),
             !.used = IF refused THEN {} ELSE used]
  /\ graph' \in {graph, NoGraph}
  /\ UNCHANGED <<bundle, adapter, adapterFrom>>

(***************************************************************************)
(* The process.                                                            *)
(***************************************************************************)
Init ==
  /\ BundleInit
  /\ adapter = NoAdapter
  /\ adapterFrom = None
  /\ last = Idle
  /\ graph = NoGraph

Environment ==
  /\ Install \/ GetCapabilities \/ ClearCapabilityCache
  /\ last' = Idle
  /\ UNCHANGED <<adapter, adapterFrom, graph>>

Restart ==
  /\ imported' = None
  /\ probe' = None
  /\ probed' = None
  /\ adapter' = NoAdapter
  /\ adapterFrom' = None
  /\ last' = Idle
  /\ graph' = NoGraph
  /\ UNCHANGED installed

Next ==
  \/ TryIfMultiStep
  \/ TryLifMultiStep
  \/ TryPlifMultiStep
  \/ TryKlifMultiStep
  \/ TryFedSNNDecayLif
  \/ Backward
  \/ Environment
  \/ Restart

Spec == Init /\ [][Next]_vars
-----------------------------------------------------------------------------
\* The state has its type: a call ends with a route that can be constructed,
\* whatever spelling of the backend was requested, and one that did not run
\* natively launched nothing.
TypeOK ==
  /\ installed \in Installations
  /\ imported \in Installations \cup {None}
  /\ probe = None <=> probed = None
  /\ probed \in Installations \cup {None}
  /\ adapter = NoAdapter <=> adapterFrom = None
  /\ adapterFrom \in Installations \cup {None}
  /\ last.request \in Requests \cup {NoRequest}
  /\ last.outcome \in {"none", "torch", "rejected", "raised", "native", "gradient"}
  /\ last.outcome \in {"torch", "rejected"} => last.launched = <<>>
  /\ graph # NoGraph => graph.kernel \in Kernels

\* The route of a native call names the kernel that ran, although the adapter
\* chose the kernel at its import and the router names it from its own probe.
RegionIsKernel ==
  last.outcome = "native" => last.launched = <<last.region, "forward">>

\* A native call reports exactly the conversion traffic it caused.
ConversionReported == last.outcome = "native" => last.bytes = last.traffic

\* Only a kernel that the extension in use promises is launched, and whoever
\* holds a native output that carries a gradient can have it computed.
OnlyPromisedKernels ==
  LET promised == ProbeLoaded(adapter.native).groups \X Directions
  IN  /\ last.launched # <<>> => last.launched \in promised \cap adapter.native.callable
      /\ graph # NoGraph =>
           <<graph.kernel, "backward">> \in promised \cap adapter.native.callable

\* A backward kernel receives, parameter by parameter, the tensors its forward
\* kernel returned under that name and the gradients of the outputs meant.
KernelGetsItsArguments ==
  last.outcome = "gradient" =>
    LET k == last.launched[1]
    IN  last.received =
          [i \in DOMAIN BridgeBackward[k] |-> Meant(BridgeBackward[k][i], last.used)]

\* A load from this installation leaves its extension in sys.modules.
Stays(i) == Loaded(i, None) # None

\* The cached public probe and the router agree on an extension both looked at;
\* and two extensions that stay in sys.modules were never both looked at: the
\* first one loaded is what everyone is given, whatever is installed in
\* between and whoever loaded it.
ProbesAgree ==
  probe # None /\ adapter # NoAdapter =>
    /\ probed = adapterFrom => probe.groups = AdapterCapabilities(adapter).groups
    /\ Stays(probed) /\ Stays(adapterFrom) => probed = adapterFrom

\* A qualified request is turned away only because of the extension in use;
\* with no adapter, because of the one in sys.modules, and only if there is
\* none because of the one installed.  So a repaired installation serves the
\* next request, unless the extension of an earlier one has stayed.
RefusedForTheBundle ==
  last.reason \in {"absent", "load_error", "unsupported_bundle", "missing_adapter_flag"} =>
    IF adapter # NoAdapter THEN last.request.op \notin ProbeLoaded(adapter.native).groups
    ELSE IF imported # None THEN ~ Required \subseteq imported.module.callable
    ELSE ImportError(installed, None) # "none"

\* tests/test_neuron.py:825: an unloadable bundle is not reported absent.
UnloadableIsNotAbsent ==
  last.reason = "absent" => installed.direct = "absent" /\ ~installed.complete
=============================================================================
