------------------------- MODULE NativeRoutingProofs ------------------------
(***************************************************************************)
(* What NativeRouting.tla states of routes, probes and kernels, proved for *)
(* every set of installations and of requests.                             *)
(*                                                                         *)
(* Three parties look at the extension at different times: the adapter     *)
(* when it is imported, the router at each call, the public probe whenever *)
(* it is asked.  Why they agree: the adapter in use is a function of the   *)
(* extension it was imported from, and what a probe of the adapter reports *)
(* is what a probe of that extension reports (`AdapterReports`), so that   *)
(* each decision the adapter took once is the one the router takes now.    *)
(* Which extension each looks at is the matter of `OneStays`: the first    *)
(* one that stays in sys.modules is the one every later load returns.      *)
(*                                                                         *)
(* Why a backward kernel gets its arguments: the sequences of names of its *)
(* autograd function satisfy one contract, whatever the kernel             *)
(* (`Contract`), from which the rest follows without looking at them; that *)
(* they do is the table of AsPyKernels, function by function.              *)
(***************************************************************************)
EXTENDS NativeRouting, TLAPS

\* What the adapter bound at its import is what its extension has.
AdapterBound ==
  adapter # NoAdapter =>
    /\ adapterFrom \in Installations
    /\ ImportError(adapterFrom, None) = "none"
    /\ adapter = Bind(adapterFrom.module)

\* The cached probe is one of the installation it was made from.
ProbeMade == probe # None => probed \in Installations /\ probe = Probe(probed, None)

\* The extension in sys.modules was loaded from an installation it stays from,
\* and is the one of whoever looked at an extension that stays.
OneStays ==
  /\ imported # None => imported \in Installations /\ Stays(imported)
  /\ probe # None /\ Stays(probed) => imported = probed
  /\ adapter # NoAdapter /\ Stays(adapterFrom) => imported = adapterFrom

Origins == installed \in Installations /\ AdapterBound /\ ProbeMade /\ OneStays

\* Whoever holds a graph holds it of the adapter in use.
GraphOfAdapter == graph # NoGraph => adapter # NoAdapter

-----------------------------------------------------------------------------
(* Extensions and what is concluded from them.                             *)

Metadata == {"none", "declared"} \cup BadMetadata
Extension(x) ==
  /\ x \in [callable : SUBSET Symbols, metadata : Metadata, declared : {x.declared}]
  /\ DOMAIN x.declared \subseteq Groups

LEMMA ModulesAreExtensions ==
  ASSUME NEW i \in Installations
  PROVE  Extension(i.module)
  BY AsPyBundleAssumption DEF Extension, Metadata

LEMMA PairsAreSymbols == \A g \in Known : Pair(g) \subseteq Known \X Directions
  BY DEF Pair

\* Only a capability whose two symbols are callable is reported.
LEMMA ReportedIsCallable ==
  ASSUME NEW x, NEW g \in Known, Supports(ProbeLoaded(x), g), x.metadata \in Metadata
  PROVE  Pair(g) \subseteq x.callable
<1>1. CASE x.metadata = "none"
  BY <1>1 DEF Supports, ProbeLoaded, Legacy, Capabilities
<1>2. CASE x.metadata = "declared"
  <2>1. ProbeLoaded(x) = Declared(x)
    BY <1>2 DEF ProbeLoaded
  <2>2. WellDeclared(x) /\ DeclaredSymbols(x) \subseteq x.callable /\ g \in DOMAIN x.declared
    BY <2>1 DEF Supports, Declared, Capabilities, Malformed
  <2>3. x.declared[g] = Pair(g)
    BY <2>2 DEF WellDeclared
  <2> QED
    BY <2>2, <2>3 DEF DeclaredSymbols
<1>3. CASE x.metadata \in BadMetadata
  BY <1>3 DEF Supports, ProbeLoaded, Malformed, Capabilities, BadMetadata
<1> QED
  BY <1>1, <1>2, <1>3 DEF Metadata

LEMMA ExportsOf ==
  ASSUME NEW x, Extension(x)
  PROVE  /\ Exports(Bind(x)).callable = x.callable \cap (Known \X Directions)
         /\ Exports(Bind(x)).metadata = x.metadata
         /\ Exports(Bind(x)).declared = x.declared
  BY DEF Exports, Bind, Extension

\* The adapter, probed itself, reports what its extension would or nothing.
LEMMA OwnReport ==
  ASSUME NEW x, Extension(x), Available(ProbeLoaded(Exports(Bind(x))))
  PROVE  ProbeLoaded(Exports(Bind(x))).groups = ProbeLoaded(x).groups
<1> DEFINE e == Exports(Bind(x))
<1>1. /\ e.callable = x.callable \cap (Known \X Directions)
      /\ e.metadata = x.metadata /\ e.declared = x.declared
  BY ExportsOf
<1>2. CASE x.metadata = "none"
  <2>1. \A g \in Known : Pair(g) \subseteq e.callable <=> Pair(g) \subseteq x.callable
    BY <1>1, PairsAreSymbols
  <2>2. ProbeLoaded(e) = Legacy(e) /\ ProbeLoaded(x) = Legacy(x)
    BY <1>1, <1>2 DEF ProbeLoaded
  <2> QED
    BY <2>1, <2>2 DEF Legacy, Capabilities
<1>3. CASE x.metadata = "declared"
  <2>1. ProbeLoaded(e) = Declared(e) /\ ProbeLoaded(x) = Declared(x)
    BY <1>1, <1>3 DEF ProbeLoaded
  <2>2. WellDeclared(e) /\ DeclaredSymbols(e) \subseteq e.callable
    BY <2>1 DEF Declared, Malformed, Capabilities, Available
  <2>3. WellDeclared(x) /\ DeclaredSymbols(x) \subseteq x.callable
    BY <2>2, <1>1 DEF WellDeclared, DeclaredSymbols
  <2> QED
    BY <1>1, <2>1, <2>2, <2>3 DEF Declared, Capabilities
<1>4. CASE x.metadata \in BadMetadata
  BY <1>1, <1>4 DEF ProbeLoaded, Malformed, Capabilities, Available, BadMetadata
<1> QED
  BY <1>2, <1>3, <1>4 DEF Extension, Metadata

\* The probe of the adapter is the probe of its extension.
LEMMA AdapterReports ==
  ASSUME NEW x, Extension(x)
  PROVE  AdapterCapabilities(Bind(x)).groups = ProbeLoaded(x).groups
<1>1. Bind(x).native = x
  BY DEF Bind
<1> QED
  BY <1>1, OwnReport DEF AdapterCapabilities

-----------------------------------------------------------------------------
(* The kernel a request runs.                                              *)

\* A request that is not refused is for a kernel the extension promises.
LEMMA NotRefused ==
  ASSUME NEW x, Extension(x), NEW r, r.op \in Operations,
         Bind(x) # NoAdapter, Refusal(r, Bind(x)) = "none"
  PROVE  /\ r.op \in ProbeLoaded(x).groups
         /\ r.op = "fedsnn_decay_lif" => "fedsnn_decay_lif" \in Bind(x).optional
<1>1. Supports(AdapterCapabilities(Bind(x)), r.op)
  BY DEF Refusal
<1>2. r.op = "fedsnn_decay_lif" => "fedsnn_decay_lif" \in Bind(x).optional
  BY <1>1 DEF Refusal
<1> QED
  BY <1>1, <1>2, AdapterReports DEF Supports

\* The kernel is the one the route names, and the extension promises it.
LEMMA KernelIsRegion ==
  ASSUME NEW x, Extension(x), NEW r, r.op \in Operations, r.store \in BOOLEAN,
         Bind(x) # NoAdapter, Refusal(r, Bind(x)) = "none"
  PROVE  /\ Implementation(Bind(x), r) = ExecutedCapability(r, Bind(x))
         /\ Implementation(Bind(x), r) \in Known \cap ProbeLoaded(x).groups
<1> DEFINE a == Bind(x)
<1>1. r.op \in ProbeLoaded(x).groups
  BY NotRefused
<1>2. AdapterCapabilities(a).groups = ProbeLoaded(x).groups
  BY AdapterReports
<1>3. x.metadata \in Metadata
  BY DEF Extension
<1>4. \A g \in Known : g \in ProbeLoaded(x).groups => Pair(g) \subseteq x.callable
  BY <1>3, ReportedIsCallable DEF Supports
<1>5. \A op \in {"if", "lif"} :
        op \in a.compact <=> Compact(op) \in ProbeLoaded(x).groups
  <2>1. \A op \in {"if", "lif"} : Compact(op) \in Known
    BY DEF Compact, Known
  <2> QED
    BY <1>4, <2>1 DEF Bind, Supports
<1>6. CASE r.op = "if"
  <2>1. Implementation(a, r) = IfMultiStep(a, r)
    BY <1>6 DEF Implementation
  <2> QED
    BY <1>1, <1>2, <1>5, <1>6, <2>1
    DEF IfMultiStep, ExecutedCapability, Compact, Supports, Known
<1>7. CASE r.op = "lif"
  <2>1. Implementation(a, r) = LifMultiStep(a, r)
    BY <1>7 DEF Implementation
  <2> QED
    BY <1>1, <1>2, <1>5, <1>7, <2>1
    DEF LifMultiStep, ExecutedCapability, Compact, Supports, Known
<1>8. CASE r.op = "plif"
  BY <1>1, <1>8 DEF Implementation, PlifMultiStep, ExecutedCapability, Known
<1>9. CASE r.op = "klif"
  <2>1. "klif" \in a.optional
    BY <1>1, <1>4, <1>9 DEF Bind, Known
  <2> QED
    BY <1>1, <1>9, <2>1 DEF Implementation, KlifMultiStep, ExecutedCapability, Known
<1>10. CASE r.op = "fedsnn_decay_lif"
  BY <1>1, <1>10, NotRefused
  DEF Implementation, FedSNNDecayLif, ExecutedCapability, Known
<1> QED
  BY <1>6, <1>7, <1>8, <1>9, <1>10 DEF Operations

\* What a kernel that runs on adapter a needs of its extension.
Promised(a, k, d) ==
  <<k, d>> \in (ProbeLoaded(a.native).groups \X Directions) \cap a.native.callable

LEMMA KernelIsPromised ==
  ASSUME NEW x, Extension(x), NEW r, r.op \in Operations, r.store \in BOOLEAN,
         Bind(x) # NoAdapter, Refusal(r, Bind(x)) = "none",
         NEW d \in Directions
  PROVE  Promised(Bind(x), Implementation(Bind(x), r), d)
<1> DEFINE k == Implementation(Bind(x), r)
<1>1. k \in Known \cap ProbeLoaded(x).groups
  BY KernelIsRegion
<1>2. Pair(k) \subseteq x.callable
  BY <1>1, ReportedIsCallable DEF Extension, Supports
<1>3. <<k, d>> \in Pair(k)
  BY DEF Pair
<1>4. Bind(x).native = x
  BY DEF Bind
<1> QED
  BY <1>1, <1>2, <1>3, <1>4 DEF Promised

\* A conversion plan is what is then moved.
LEMMA PlanIsTraffic ==
  ASSUME NEW r \in Requests, ~Unsupported(r)
  PROVE  PrecisionPlan(r) = ToNativeFp32(r) + PublicResult(r)
<1>1. r.op \in Operations /\ r.dtype \in Dtypes /\ r.stateDtype \in Dtypes
  BY NativeRoutingAssumption
<1>2. CASE r.dtype = "fp32"
  <2>1. r.op # "fedsnn_decay_lif" => r.stateDtype = "fp32"
    BY <1>1, <1>2 DEF Unsupported, UnsupportedStateful, Operations
  <2>2. Converted(r) = {}
    BY <1>2, <2>1 DEF Converted, Inputs
  <2>3. ToNativeFp32(r) = 0
    BY <2>2 DEF ToNativeFp32, Total
  <2> QED
    BY <1>2, <2>3 DEF PrecisionPlan, PublicResult
<1>3. CASE r.dtype # "fp32"
  BY <1>3 DEF PrecisionPlan, PublicResult, ToNativeFp32
<1> QED
  BY <1>2, <1>3

-----------------------------------------------------------------------------
(* One step.                                                               *)

IInv ==
  /\ Origins
  /\ GraphOfAdapter
  /\ TypeOK
  /\ RegionIsKernel
  /\ ConversionReported
  /\ OnlyPromisedKernels
  /\ RefusedForTheBundle

\* What a native attempt meets: the adapter of some installation.
LEMMA AdapterOfInstallation ==
  ASSUME Origins, NEW a, a = LoadExtension(adapter, installed, imported), a # NoAdapter
  PROVE  \E i \in Installations : a = Bind(i.module)
  BY DEF Origins, AdapterBound, OneStays, LoadExtension, Found

\* What a load yields is what loading that installation first would, and what
\* it leaves in sys.modules is that one, if it stays.
LEMMA LoadsAsAlone ==
  ASSUME Origins
  PROVE  LET f == Found(installed, imported)
             m == Loaded(installed, imported)
         IN  /\ f \in Installations
             /\ LoadError(f, None) = LoadError(installed, imported)
             /\ m # None => m = f
             /\ m = IF Stays(f) THEN f ELSE None
             /\ imported # None => m = imported
<1> USE NoProbeAssumption
<1>1. CASE imported = None
  <2>1. Found(installed, imported) = installed
    BY <1>1 DEF Found
  <2>2. Loaded(installed, None) \in {installed, None}
    BY DEF Loaded
  <2>3. Stays(installed) <=> Loaded(installed, None) # None
    BY DEF Stays
  <2> QED
    BY <1>1, <2>1, <2>2, <2>3 DEF Origins
<1>2. CASE imported # None
  <2>1. Found(installed, imported) = imported /\ Loaded(installed, imported) = imported
    BY <1>2 DEF Found, Loaded
  <2>2. imported \in Installations /\ Stays(imported)
    BY <1>2 DEF Origins, OneStays
  <2>3. LoadError(imported, None) = "none"
    BY <2>2 DEF Stays, Loaded
  <2>4. LoadError(installed, imported) = "none"
    BY <1>2 DEF LoadError
  <2> QED
    BY <1>2, <2>1, <2>2, <2>3, <2>4
<1> QED
  BY <1>1, <1>2

LEMMA OriginsKept ==
  ASSUME Origins, TypeOK, NEW r, Try(r)
  PROVE  Origins' /\ (adapter' = NoAdapter <=> adapterFrom' = None)
                  /\ adapterFrom' \in Installations \cup {None}
                  /\ imported' \in Installations \cup {None}
<1> DEFINE f == Found(installed, imported)
           m == Loaded(installed, imported)
           a == LoadExtension(adapter, installed, imported)
<1>1. CASE UNCHANGED <<bundle, adapter, adapterFrom>>
  BY <1>1 DEF bundle, Origins, AdapterBound, ProbeMade, OneStays, TypeOK
<1>2. CASE /\ adapter' = a
           /\ adapterFrom' = IF a # adapter THEN f ELSE adapterFrom
           /\ imported' = IF adapter # NoAdapter THEN imported ELSE m
           /\ UNCHANGED <<installed, probe, probed>>
  <2>1. /\ f \in Installations /\ LoadError(f, None) = LoadError(installed, imported)
        /\ m # None => m = f
        /\ m = IF Stays(f) THEN f ELSE None
        /\ imported # None => m = imported
    BY LoadsAsAlone
  <2>2. None \notin Installations
    BY NoProbeAssumption
  <2> HIDE DEF f, m
  <2>3. CASE adapter # NoAdapter
    <3>1. a = adapter
      BY <2>3 DEF LoadExtension
    <3> QED
      BY <1>2, <2>3, <3>1 DEF Origins, AdapterBound, ProbeMade, OneStays, TypeOK
  <2>4. CASE adapter = NoAdapter
    <3>1. imported' = m /\ (imported' # None => imported' \in Installations /\ Stays(imported'))
      BY <1>2, <2>1, <2>2, <2>4
    <3>2. probe' # None /\ Stays(probed') => imported' = probed'
      BY <1>2, <2>1, <2>2, <3>1 DEF Origins, ProbeMade, OneStays
    <3>3. installed' \in Installations /\ ProbeMade'
      BY <1>2 DEF Origins, ProbeMade
    <3>4. CASE a = NoAdapter
      BY <1>2, <2>4, <3>1, <3>2, <3>3, <3>4
      DEF Origins, AdapterBound, OneStays, TypeOK
    <3>5. CASE a # NoAdapter
      <4>1. ImportError(installed, imported) = "none" /\ a = Bind(f.module)
        BY <2>4, <3>5 DEF LoadExtension, f
      <4>2. ImportError(f, None) = "none"
        <5>1. Found(f, None) = f
          BY DEF Found
        <5>2. Required \subseteq f.module.callable /\ LoadError(installed, imported) = "none"
          BY <4>1 DEF ImportError, f
        <5> QED
          BY <2>1, <5>1, <5>2 DEF ImportError
      <4>3. adapterFrom' = f /\ adapter' # NoAdapter
        BY <1>2, <2>4, <3>5
      <4>4. Stays(adapterFrom') => imported' = adapterFrom'
        BY <2>1, <3>1, <4>3
      <4> QED
        BY <1>2, <2>1, <2>2, <3>1, <3>2, <3>3, <4>1, <4>2, <4>3, <4>4
        DEF Origins, AdapterBound, OneStays
    <3> QED
      BY <3>4, <3>5
  <2> QED
    BY <2>3, <2>4
<1> QED
  BY <1>1, <1>2 DEF Try

\* The fields of a call that did not run natively.
LEMMA FallBack ==
  ASSUME NEW r \in Requests, NEW reason, FallBackOrReject(r, reason)
  PROVE  /\ last'.outcome \in {"torch", "rejected"}
         /\ last'.launched = <<>> /\ last'.reason = reason /\ last'.request = r
<1>1. r.requested \in {"aspy", "cupy"}
  BY NativeRoutingAssumption
<1>2. last'.outcome = Outcome(IF r.strict THEN StrictRejection(r) ELSE TorchRoute(r))
  BY DEF FallBackOrReject, Idle
<1>3. CASE r.strict
  <2>1. Outcome(StrictRejection(r)) = "rejected"
    BY <1>1, <1>3 DEF Outcome, Admitted, StrictRejection
  <2> QED
    BY <1>2, <1>3, <2>1 DEF FallBackOrReject, Idle
<1>4. CASE ~r.strict
  <2>1. Outcome(TorchRoute(r)) = "torch"
    BY <1>4 DEF Outcome, Admitted, TorchRoute
  <2> QED
    BY <1>2, <1>4, <2>1 DEF FallBackOrReject, Idle
<1> QED
  BY <1>3, <1>4

LEMMA TurnedAway ==
  ASSUME IInv, NEW r \in Requests, RequestReason(r) # "none",
         FallBackOrReject(r, RequestReason(r)), graph' = NoGraph,
         UNCHANGED <<bundle, adapter, adapterFrom>>
  PROVE  IInv'
<1>1. /\ last'.outcome \in {"torch", "rejected"} /\ last'.launched = <<>>
      /\ last'.reason = RequestReason(r) /\ last'.request = r
  BY FallBack
<1>2. RequestReason(r) \in
        {"unsupported_request", "unsupported_format", "unsupported_converted_format"}
  BY DEF RequestReason
<1>3. Origins'
  BY DEF IInv, Origins, AdapterBound, ProbeMade, OneStays, bundle
<1>4. TypeOK'
  BY <1>1 DEF IInv, TypeOK, bundle
<1>5. RefusedForTheBundle'
  BY <1>1, <1>2 DEF RefusedForTheBundle
<1> QED
  BY <1>1, <1>3, <1>4, <1>5
  DEF IInv, GraphOfAdapter, RegionIsKernel, ConversionReported, OnlyPromisedKernels

\* A refusal has its reason in the adapter, or in there being none.
LEMMA RefusalReason ==
  ASSUME NEW r, r.op \in Operations, NEW a, Refusal(r, a) # "none",
         a = NoAdapter \/ \E i \in Installations : a = Bind(i.module)
  PROVE  a # NoAdapter => r.op \notin ProbeLoaded(a.native).groups
<1> SUFFICES ASSUME a # NoAdapter
             PROVE  r.op \notin ProbeLoaded(a.native).groups
  OBVIOUS
<1>1. PICK i \in Installations : a = Bind(i.module)
  OBVIOUS
<1>2. a.native = i.module
  BY <1>1 DEF Bind
<1>3. AdapterCapabilities(a).groups = ProbeLoaded(i.module).groups
  BY <1>1, AdapterReports, ModulesAreExtensions
<1>4. CASE ~Supports(AdapterCapabilities(a), r.op)
  BY <1>2, <1>3, <1>4 DEF Supports
<1>5. CASE r.op = "fedsnn_decay_lif" /\ r.op \notin a.optional
  <2>1. ~ Pair(r.op) \subseteq i.module.callable
    BY <1>1, <1>5 DEF Bind
  <2> QED
    BY <1>2, <1>5, <2>1, ReportedIsCallable, ModulesAreExtensions
    DEF Supports, Extension, Known
<1> QED
  BY <1>4, <1>5 DEF Refusal

LEMMA Refused ==
  ASSUME IInv, NEW r \in Requests, NEW a, a = LoadExtension(adapter, installed, imported),
         Refusal(r, a) # "none", FallBackOrReject(r, Refusal(r, a)),
         adapter' = a, graph' = NoGraph, UNCHANGED <<installed, probe, probed>>,
         imported' = IF adapter # NoAdapter THEN imported ELSE Loaded(installed, imported),
         Origins', adapter' = NoAdapter <=> adapterFrom' = None,
         adapterFrom' \in Installations \cup {None},
         imported' \in Installations \cup {None}
  PROVE  IInv'
<1>1. /\ last'.outcome \in {"torch", "rejected"} /\ last'.launched = <<>>
      /\ last'.reason = Refusal(r, a) /\ last'.request = r
  BY FallBack
<1>2. r.op \in Operations
  BY NativeRoutingAssumption
<1>3. TypeOK'
  BY <1>1 DEF IInv, TypeOK, bundle
<1>4. RefusedForTheBundle'
  <2>1. CASE a = NoAdapter
    <3>1. ImportError(installed, imported) # "none"
      BY <2>1, NoAdapterAssumption, LoadsAsAlone DEF IInv, LoadExtension
    <3>2. adapter' = NoAdapter /\ imported' = Loaded(installed, imported)
      BY <2>1, NoAdapterAssumption DEF LoadExtension
    <3>3. CASE imported' # None
      <4>1. imported' = Found(installed, imported) /\ Stays(imported')
        BY <3>2, <3>3, LoadsAsAlone DEF IInv
      <4>2. LoadError(installed, imported) = "none"
        <5>1. LoadError(Found(installed, imported), None) = LoadError(installed, imported)
          BY LoadsAsAlone DEF IInv
        <5>2. LoadError(imported', None) = "none"
          BY <4>1 DEF Stays, Loaded
        <5> QED
          BY <4>1, <5>1, <5>2
      <4>3. ~ Required \subseteq imported'.module.callable
        BY <3>1, <4>1, <4>2 DEF ImportError
      <4> QED
        BY <3>2, <3>3, <4>3 DEF RefusedForTheBundle
    <3>4. CASE imported' = None
      <4>1. imported = None
        BY <3>2, <3>4, LoadsAsAlone DEF IInv
      <4>2. ImportError(installed', None) # "none"
        BY <3>1, <4>1
      <4> QED
        BY <3>2, <3>4, <4>2 DEF RefusedForTheBundle
    <3> QED
      BY <3>3, <3>4
  <2>2. CASE a # NoAdapter
    <3>1. \E i \in Installations : a = Bind(i.module)
      BY <2>2, AdapterOfInstallation DEF IInv
    <3>2. r.op \notin ProbeLoaded(a.native).groups
      BY <1>2, <2>2, <3>1, RefusalReason
    <3> QED
      BY <1>1, <2>2, <3>2 DEF RefusedForTheBundle
  <2> QED
    BY <2>1, <2>2
<1> QED
  BY <1>1, <1>3, <1>4
  DEF IInv, GraphOfAdapter, RegionIsKernel, ConversionReported, OnlyPromisedKernels

\* A native attempt, whether the kernel's result is accepted or not.
LEMMA RunsNative ==
  ASSUME IInv, NEW r \in Requests, RequestReason(r) = "none",
         NEW a, a = LoadExtension(adapter, installed, imported), Refusal(r, a) = "none",
         RaisesAfterLaunch(r, a) \/ ReturnsNative(r, a),
         adapter' = a, UNCHANGED <<installed, probe, probed>>,
         Origins', adapter' = NoAdapter <=> adapterFrom' = None,
         adapterFrom' \in Installations \cup {None},
         imported' \in Installations \cup {None}
  PROVE  IInv'
<1> DEFINE k == Implementation(a, r)
<1>1. r.op \in Operations /\ r.store \in BOOLEAN
  BY NativeRoutingAssumption
<1>2. a # NoAdapter
  BY DEF Refusal, FailedCapabilities, Capabilities, Malformed
<1>3. PICK i \in Installations : a = Bind(i.module)
  BY <1>2, AdapterOfInstallation DEF IInv
<1>4. Extension(i.module)
  BY ModulesAreExtensions
<1>5. k = ExecutedCapability(r, a) /\ k \in Known
  BY <1>1, <1>2, <1>3, <1>4, KernelIsRegion
<1>6. Promised(a, k, "forward") /\ Promised(a, k, "backward")
  BY <1>1, <1>2, <1>3, <1>4, KernelIsPromised DEF Directions
<1>7. /\ last'.request = r /\ last'.launched = <<k, "forward">>
      /\ last'.reason = "none" /\ last'.traffic = ToNativeFp32(r) + PublicResult(r)
  BY DEF RaisesAfterLaunch, ReturnsNative, Launched, Idle
<1>8. \/ last'.outcome = "raised"
      \/ /\ last'.outcome = "native" /\ last'.region = ExecutedCapability(r, a)
         /\ last'.bytes = PrecisionPlan(r)
  <2>1. CASE RaisesAfterLaunch(r, a)
    BY <2>1 DEF RaisesAfterLaunch, Launched, Idle
  <2>2. CASE ReturnsNative(r, a)
    <3>1. Outcome(AcceleratedRoute(r)) = "native"
      <4>1. r.requested \in {"aspy", "cupy"}
        BY NativeRoutingAssumption
      <4> QED
        BY <4>1 DEF Outcome, Admitted, AcceleratedRoute
    <3> QED
      BY <2>2, <3>1 DEF ReturnsNative, Launched, Idle
  <2> QED
    BY <2>1, <2>2
<1>9. graph' # NoGraph => graph'.kernel = k
  BY DEF RaisesAfterLaunch, ReturnsNative
<1>10. TypeOK'
  <2>1. Known \subseteq Kernels
    BY DEF Known, Kernels
  <2> QED
    BY <1>5, <1>7, <1>8, <1>9, <2>1 DEF IInv, TypeOK, bundle
<1>11. ConversionReported'
  <2>1. ~Unsupported(r)
    BY DEF RequestReason
  <2> QED
    BY <1>7, <1>8, <2>1, PlanIsTraffic DEF ConversionReported
<1>12. OnlyPromisedKernels'
  BY <1>6, <1>7, <1>9 DEF OnlyPromisedKernels, Promised
<1>13. RegionIsKernel' /\ RefusedForTheBundle' /\ GraphOfAdapter'
  BY <1>2, <1>5, <1>7, <1>8 DEF RegionIsKernel, RefusedForTheBundle, GraphOfAdapter
<1> QED
  BY <1>10, <1>11, <1>12, <1>13 DEF IInv

LEMMA TryStep ==
  ASSUME IInv, NEW r \in Requests, Try(r)
  PROVE  IInv'
<1> DEFINE a == LoadExtension(adapter, installed, imported)
<1>1. /\ Origins' /\ (adapter' = NoAdapter <=> adapterFrom' = None)
      /\ adapterFrom' \in Installations \cup {None}
      /\ imported' \in Installations \cup {None}
  BY OriginsKept DEF IInv
<1>2. CASE /\ RequestReason(r) # "none" /\ FallBackOrReject(r, RequestReason(r))
           /\ graph' = NoGraph /\ UNCHANGED <<bundle, adapter, adapterFrom>>
  BY <1>2, TurnedAway
<1>3. CASE /\ Refusal(r, a) # "none" /\ FallBackOrReject(r, Refusal(r, a))
           /\ adapter' = a /\ graph' = NoGraph /\ UNCHANGED <<installed, probe, probed>>
           /\ imported' = IF adapter # NoAdapter THEN imported
                          ELSE Loaded(installed, imported)
  BY <1>1, <1>3, Refused
<1>4. CASE /\ RequestReason(r) = "none" /\ Refusal(r, a) = "none"
           /\ RaisesAfterLaunch(r, a) \/ ReturnsNative(r, a)
           /\ adapter' = a /\ UNCHANGED <<installed, probe, probed>>
  BY <1>1, <1>4, RunsNative
<1> QED
  BY <1>2, <1>3, <1>4 DEF Try

LEMMA BackwardStep ==
  ASSUME IInv, Backward
  PROVE  IInv'
<1>1. UNCHANGED <<bundle, adapter, adapterFrom>> /\ graph' \in {graph, NoGraph}
      /\ graph # NoGraph
  BY DEF Backward
<1>2. /\ last'.request = NoRequest /\ last'.reason = "none"
      /\ last'.outcome \in {"raised", "gradient"}
      /\ last'.launched \in {<<>>, <<graph.kernel, "backward">>}
  BY DEF Backward, Idle
<1>3. Origins' /\ GraphOfAdapter'
  BY <1>1 DEF IInv, Origins, AdapterBound, ProbeMade, OneStays, GraphOfAdapter, bundle
<1>4. TypeOK'
  BY <1>1, <1>2 DEF IInv, TypeOK, bundle
<1>5. OnlyPromisedKernels'
  BY <1>1, <1>2 DEF IInv, OnlyPromisedKernels
<1>6. RegionIsKernel' /\ ConversionReported' /\ RefusedForTheBundle'
  BY <1>2 DEF RegionIsKernel, ConversionReported, RefusedForTheBundle
<1> QED
  BY <1>3, <1>4, <1>5, <1>6 DEF IInv

\* A step that leaves the caller no result of a call.
LEMMA IdleKeeps ==
  ASSUME last' = Idle, Origins', GraphOfAdapter',
         probe' = None <=> probed' = None,
         probed' \in Installations \cup {None},
         imported' \in Installations \cup {None},
         adapter' = NoAdapter <=> adapterFrom' = None,
         adapterFrom' \in Installations \cup {None},
         graph' # NoGraph =>
           /\ graph'.kernel \in Kernels
           /\ Promised(adapter', graph'.kernel, "backward")
  PROVE  IInv'
<1>1. /\ last'.request = NoRequest /\ last'.reason = "none"
      /\ last'.outcome = "none" /\ last'.launched = <<>>
  BY DEF Idle
<1>2. TypeOK'
  BY <1>1 DEF TypeOK, Origins
<1> QED
  BY <1>1, <1>2 DEF IInv, RegionIsKernel, ConversionReported, OnlyPromisedKernels,
                    RefusedForTheBundle, Promised

LEMMA EnvironmentStep ==
  ASSUME IInv, Environment
  PROVE  IInv'
<1>1. last' = Idle /\ UNCHANGED <<adapter, adapterFrom, graph>>
  BY DEF Environment
<1>2. /\ installed' \in Installations /\ probed' \in Installations \cup {None}
      /\ imported' \in Installations \cup {None}
      /\ probe' = None <=> probed' = None
      /\ ProbeMade' /\ OneStays'
  <2>1. CASE Install
    BY <1>1, <2>1 DEF Install, IInv, TypeOK, Origins, ProbeMade, OneStays
  <2>2. CASE GetCapabilities
    <3>1. CASE probe # None
      BY <1>1, <2>2, <3>1 DEF GetCapabilities, IInv, TypeOK, Origins, ProbeMade, OneStays
    <3>2. CASE probe = None
      <4> DEFINE f == Found(installed, imported)
                 m == Loaded(installed, imported)
      <4>1. /\ probe' = Probe(installed, imported) /\ probed' = f /\ imported' = m
            /\ installed' = installed
        BY <2>2, <3>2 DEF GetCapabilities
      <4>2. /\ f \in Installations /\ LoadError(f, None) = LoadError(installed, imported)
            /\ m # None => m = f
            /\ m = IF Stays(f) THEN f ELSE None
            /\ imported # None => m = imported
        BY LoadsAsAlone DEF IInv
      <4>3. Probe(f, None) = Probe(installed, imported)
        <5>1. Found(f, None) = f
          BY DEF Found
        <5> QED
          BY <4>2, <5>1 DEF Probe
      <4>4. f # None /\ Probe(f, None) # None
        BY <4>2, NoProbeAssumption
      <4> HIDE DEF f, m
      <4>5. installed' \in Installations /\ imported' \in Installations \cup {None}
            /\ probed' \in Installations /\ probe' # None /\ probed' # None
        BY <4>1, <4>2, <4>3, <4>4 DEF IInv, Origins
      <4>6. ProbeMade'
        BY <4>1, <4>2, <4>3 DEF ProbeMade
      <4>7. OneStays'
        <5>1. imported' # None => imported' \in Installations /\ Stays(imported')
          BY <4>1, <4>2
        <5>2. Stays(probed') => imported' = probed'
          BY <4>1, <4>2
        <5>3. ASSUME adapter # NoAdapter, Stays(adapterFrom)
              PROVE  imported' = adapterFrom
          <6>1. imported = adapterFrom /\ adapterFrom \in Installations
            BY <5>3 DEF IInv, Origins, OneStays, AdapterBound
          <6> QED
            BY <4>1, <4>2, <6>1, NoProbeAssumption
        <5> QED
          BY <1>1, <5>1, <5>2, <5>3 DEF OneStays
      <4> QED
        BY <4>5, <4>6, <4>7
    <3> QED
      BY <3>1, <3>2
  <2>3. CASE ClearCapabilityCache
    BY <1>1, <2>3 DEF ClearCapabilityCache, IInv, TypeOK, Origins, ProbeMade, OneStays
  <2> QED
    BY <2>1, <2>2, <2>3 DEF Environment
<1>3. Origins' /\ GraphOfAdapter'
  BY <1>1, <1>2 DEF IInv, Origins, AdapterBound, GraphOfAdapter
<1>4. graph' # NoGraph =>
        graph'.kernel \in Kernels /\ Promised(adapter', graph'.kernel, "backward")
  BY <1>1 DEF IInv, TypeOK, OnlyPromisedKernels, Promised
<1> QED
  BY <1>1, <1>2, <1>3, <1>4, IdleKeeps DEF IInv, TypeOK

LEMMA RestartStep ==
  ASSUME IInv, Restart
  PROVE  IInv'
<1>1. Origins' /\ GraphOfAdapter'
  BY DEF Restart, IInv, Origins, AdapterBound, ProbeMade, OneStays, GraphOfAdapter
<1> QED
  BY <1>1, IdleKeeps DEF Restart

-----------------------------------------------------------------------------
(* The process.                                                            *)

LEMMA InvInit == Init => IInv
<1> SUFFICES ASSUME Init PROVE IInv
  OBVIOUS
<1>1. /\ last.request = NoRequest /\ last.reason = "none"
      /\ last.outcome = "none" /\ last.launched = <<>>
  BY DEF Init, Idle
<1>2. Origins /\ TypeOK
  BY <1>1 DEF Init, BundleInit, Origins, AdapterBound, ProbeMade, OneStays, TypeOK
<1> QED
  BY <1>1, <1>2 DEF Init, IInv, GraphOfAdapter, RegionIsKernel, ConversionReported,
                    OnlyPromisedKernels, RefusedForTheBundle

LEMMA InvNext == IInv /\ [Next]_vars => IInv'
<1> SUFFICES ASSUME IInv, [Next]_vars PROVE IInv'
  OBVIOUS
<1>1. CASE \E r \in Requests : Try(r)
  BY <1>1, TryStep
<1>2. CASE Backward
  BY <1>2, BackwardStep
<1>3. CASE Environment
  BY <1>3, EnvironmentStep
<1>4. CASE Restart
  BY <1>4, RestartStep
<1>5. CASE UNCHANGED vars
  <2>1. Origins' /\ GraphOfAdapter' /\ TypeOK'
    BY <1>5 DEF vars, bundle, IInv, Origins, AdapterBound, ProbeMade, OneStays,
                GraphOfAdapter, TypeOK
  <2>2. RegionIsKernel' /\ ConversionReported' /\ OnlyPromisedKernels'
    BY <1>5 DEF vars, bundle, IInv, RegionIsKernel, ConversionReported, OnlyPromisedKernels
  <2>3. RefusedForTheBundle'
    BY <1>5 DEF vars, bundle, IInv, RefusedForTheBundle
  <2> QED
    BY <2>1, <2>2, <2>3 DEF IInv
<1> QED
  BY <1>1, <1>2, <1>3, <1>4, <1>5
  DEF Next, TryIfMultiStep, TryLifMultiStep, TryPlifMultiStep, TryKlifMultiStep,
      TryFedSNNDecayLif

\* The inductive invariant holds in every reachable state.
THEOREM Invariance == Spec => []IInv
  BY InvInit, InvNext, PTL DEF Spec

\* Every call ends with a route that can be constructed, and a call that did
\* not run natively launched nothing.
THEOREM TypeCorrect == Spec => []TypeOK
<1>1. IInv => TypeOK
  BY DEF IInv
<1> QED
  BY <1>1, Invariance, PTL

\* The route of a native call names the kernel that ran: the compact kernel the
\* adapter chose when it was imported is the one the router names at the call.
THEOREM RouteNamesKernel == Spec => []RegionIsKernel
<1>1. IInv => RegionIsKernel
  BY DEF IInv
<1> QED
  BY <1>1, Invariance, PTL

\* Only kernels the extension in use promises and has are launched, and the
\* backward kernel of every pending gradient is one of them.
THEOREM LaunchesArePromised == Spec => []OnlyPromisedKernels
<1>1. IInv => OnlyPromisedKernels
  BY DEF IInv
<1> QED
  BY <1>1, Invariance, PTL

\* The conversion traffic reported for a native call is what it moved, for
\* every number of time steps and neurons.
THEOREM TrafficIsReported == Spec => []ConversionReported
<1>1. IInv => ConversionReported
  BY DEF IInv
<1> QED
  BY <1>1, Invariance, PTL

\* A qualified request is turned away only because of the extension in use;
\* with no adapter, of the one in sys.modules or else of the one installed.
THEOREM RefusalHasCause == Spec => []RefusedForTheBundle
<1>1. IInv => RefusedForTheBundle
  BY DEF IInv
<1> QED
  BY <1>1, Invariance, PTL

\* The cached public probe and the router agree on an extension both looked at,
\* and of two extensions that stay in sys.modules they never look at both.
THEOREM ProbesOfOneExtensionAgree == Spec => []ProbesAgree
<1>1. IInv => ProbesAgree
  <2> SUFFICES ASSUME IInv, probe # None, adapter # NoAdapter
               PROVE  /\ probed = adapterFrom =>
                           probe.groups = AdapterCapabilities(adapter).groups
                      /\ Stays(probed) /\ Stays(adapterFrom) => probed = adapterFrom
    BY DEF ProbesAgree
  <2>1. adapter = Bind(adapterFrom.module) /\ adapterFrom \in Installations
    BY DEF IInv, Origins, AdapterBound
  <2>2. LoadError(adapterFrom, None) = "none" /\ Found(adapterFrom, None) = adapterFrom
    BY DEF IInv, Origins, AdapterBound, ImportError, Found
  <2>3. probed = adapterFrom => probe = ProbeLoaded(adapterFrom.module)
    BY <2>2 DEF IInv, Origins, ProbeMade, Probe
  <2>4. AdapterCapabilities(adapter).groups = ProbeLoaded(adapterFrom.module).groups
    BY <2>1, AdapterReports, ModulesAreExtensions
  <2>5. Stays(probed) /\ Stays(adapterFrom) => probed = adapterFrom
    BY DEF IInv, Origins, OneStays
  <2> QED
    BY <2>3, <2>4, <2>5
<1> QED
  BY <1>1, Invariance, PTL

-----------------------------------------------------------------------------
(* The positional contract.                                                *)

\* What the five sequences of an autograd function and the two of its kernel
\* have in common, kernel by kernel.
Contract(f, k) ==
  /\ f.unpacked = BridgeForward[k]
  /\ f.restored = f.saved
  /\ DOMAIN f.gradients = DOMAIN f.outputs
  /\ \A i \in DOMAIN f.gradients :
       f.gradients[i] \in DOMAIN GradientOf /\ GradientOf[f.gradients[i]] = f.outputs[i]
  /\ f.arguments = BridgeBackward[k]
  /\ \A i \in DOMAIN f.arguments :
       \/ f.arguments[i] \in Names(f.gradients)
       \/ f.arguments[i] \in Names(f.saved) /\ f.arguments[i] \notin DOMAIN GradientOf

\* A name found among its own names is itself.
LEMMA FoundAtItself ==
  ASSUME NEW names, NEW values, NEW n \in Names(names)
  PROVE  \E i \in DOMAIN names : names[i] = n /\ At(names, values, n) = values[i]
  BY DEF Names, At

\* Whatever a context kept is what the caller or the kernel named that way.
LEMMA ReturnedIsItself ==
  ASSUME NEW k, Contract(Function(k), k), NEW n
  PROVE  Returned(k, n) = n
<1>1. CASE n \in Names(Function(k).unpacked)
  <2>1. PICK i \in DOMAIN Function(k).unpacked :
          /\ Function(k).unpacked[i] = n
          /\ At(Function(k).unpacked, BridgeForward[k], n) = BridgeForward[k][i]
    BY <1>1, FoundAtItself
  <2> QED
    BY <1>1, <2>1 DEF Returned, Contract
<1>2. CASE n \notin Names(Function(k).unpacked)
  BY <1>2 DEF Returned
<1> QED
  BY <1>1, <1>2

\* Under the contract the backward kernel receives what its parameters mean.
LEMMA ContractReceives ==
  ASSUME NEW k, Contract(Function(k), k), NEW used
  PROVE  Received(k, SavedTensors(k), used) =
           [i \in DOMAIN BridgeBackward[k] |-> Meant(BridgeBackward[k][i], used)]
<1> DEFINE f == Function(k)
           incoming == [i \in DOMAIN f.gradients |->
             IF PublicOutputs(k)[i] \in used
             THEN Gradient(PublicOutputs(k)[i]) ELSE Zeros]
           argument(i) == IF f.arguments[i] \in Names(f.gradients)
                          THEN At(f.gradients, incoming, f.arguments[i])
                          ELSE At(f.restored, SavedTensors(k), f.arguments[i])
<1>1. Received(k, SavedTensors(k), used) = [i \in DOMAIN f.arguments |-> argument(i)]
  BY DEF Received
<1>2. \A i \in DOMAIN f.outputs : PublicOutputs(k)[i] = f.outputs[i]
  BY ReturnedIsItself DEF PublicOutputs
<1>3. \A i \in DOMAIN f.saved : SavedTensors(k)[i] = Value(f.saved[i])
  BY ReturnedIsItself DEF SavedTensors
<1>4. ASSUME NEW i \in DOMAIN f.arguments
      PROVE  argument(i) = Meant(f.arguments[i], used)
  <2> DEFINE n == f.arguments[i]
  <2>1. CASE n \in Names(f.gradients)
    <3>1. PICK j \in DOMAIN f.gradients :
            f.gradients[j] = n /\ At(f.gradients, incoming, n) = incoming[j]
      BY <2>1, FoundAtItself
    <3>2. /\ j \in DOMAIN f.outputs /\ n \in DOMAIN GradientOf
          /\ GradientOf[n] = f.outputs[j]
      BY <3>1 DEF Contract
    <3>3. PublicOutputs(k)[j] = GradientOf[n]
      BY <1>2, <3>2
    <3>4. incoming[j] = IF GradientOf[n] \in used THEN Gradient(GradientOf[n]) ELSE Zeros
      BY <3>1, <3>3
    <3> HIDE DEF incoming, f
    <3> QED
      BY <2>1, <3>1, <3>2, <3>4 DEF Meant
  <2>2. CASE n \notin Names(f.gradients)
    <3>1. n \in Names(f.saved) /\ n \notin DOMAIN GradientOf /\ f.restored = f.saved
      BY <2>2 DEF Contract
    <3>2. PICK j \in DOMAIN f.saved :
            f.saved[j] = n /\ At(f.saved, SavedTensors(k), n) = SavedTensors(k)[j]
      BY <3>1, FoundAtItself
    <3>3. SavedTensors(k)[j] = Value(n)
      BY <1>3, <3>2
    <3> QED
      BY <2>2, <3>1, <3>2, <3>3 DEF Meant
  <2> QED
    BY <2>1, <2>2
<1>5. f.arguments = BridgeBackward[k]
  BY DEF Contract
<1> HIDE DEF f, argument
<1> QED
  BY <1>1, <1>4, <1>5

\* The table, function by function.
LEMMA ContractOfIF == Contract(AsPyIF, "if") /\ Contract(AsPyIF, "lif")
<1>1. \A i \in 1 .. 3 : /\ AsPyIF.gradients[i] \in DOMAIN GradientOf
                        /\ GradientOf[AsPyIF.gradients[i]] = AsPyIF.outputs[i]
  BY DEF AsPyIF, GradientOf
<1>2. Names(AsPyIF.gradients) = {"grad_spike_seq", "grad_v_final", "grad_v_seq"}
  BY DEF AsPyIF, Names
<1>3. Names(AsPyIF.saved) = {"h_seq", "spike_seq"}
  BY DEF AsPyIF, Names
<1>4. \A i \in 1 .. 5 : AsPyIF.arguments[i] \in
        {"h_seq", "spike_seq"}
          \cup {"grad_spike_seq", "grad_v_final", "grad_v_seq"}
  BY DEF AsPyIF
<1>5. /\ DOMAIN AsPyIF.gradients = 1 .. 3 /\ DOMAIN AsPyIF.outputs = 1 .. 3
      /\ DOMAIN AsPyIF.arguments = 1 .. 5
  BY DEF AsPyIF
<1>6. /\ AsPyIF.unpacked = BridgeForward["if"]
      /\ AsPyIF.unpacked = BridgeForward["lif"]
  BY DEF AsPyIF, BridgeForward, FullOutputs
<1>7. /\ AsPyIF.arguments = BridgeBackward["if"]
      /\ AsPyIF.arguments = BridgeBackward["lif"]
  BY DEF AsPyIF, BridgeBackward, FullArguments
<1>8. AsPyIF.restored = AsPyIF.saved
  BY DEF AsPyIF
<1>9. {"h_seq", "spike_seq"} \cap DOMAIN GradientOf = {}
  BY DEF GradientOf
<1> QED
  BY <1>1, <1>2, <1>3, <1>4, <1>5, <1>6, <1>7, <1>8, <1>9 DEF Contract

LEMMA ContractOfIFCompact == Contract(AsPyIFCompact, "if_compact") /\ Contract(AsPyIFCompact, "lif_compact")
<1>1. \A i \in 1 .. 2 : /\ AsPyIFCompact.gradients[i] \in DOMAIN GradientOf
                        /\ GradientOf[AsPyIFCompact.gradients[i]] = AsPyIFCompact.outputs[i]
  BY DEF AsPyIFCompact, GradientOf
<1>2. Names(AsPyIFCompact.gradients) = {"grad_spike_seq", "grad_v_final"}
  BY DEF AsPyIFCompact, Names
<1>3. Names(AsPyIFCompact.saved) = {"h_seq", "spike_seq"}
  BY DEF AsPyIFCompact, Names
<1>4. \A i \in 1 .. 4 : AsPyIFCompact.arguments[i] \in
        {"h_seq", "spike_seq"}
          \cup {"grad_spike_seq", "grad_v_final"}
  BY DEF AsPyIFCompact
<1>5. /\ DOMAIN AsPyIFCompact.gradients = 1 .. 2 /\ DOMAIN AsPyIFCompact.outputs = 1 .. 2
      /\ DOMAIN AsPyIFCompact.arguments = 1 .. 4
  BY DEF AsPyIFCompact
<1>6. /\ AsPyIFCompact.unpacked = BridgeForward["if_compact"]
      /\ AsPyIFCompact.unpacked = BridgeForward["lif_compact"]
  BY DEF AsPyIFCompact, BridgeForward, CompactOutputs
<1>7. /\ AsPyIFCompact.arguments = BridgeBackward["if_compact"]
      /\ AsPyIFCompact.arguments = BridgeBackward["lif_compact"]
  BY DEF AsPyIFCompact, BridgeBackward, CompactArguments
<1>8. AsPyIFCompact.restored = AsPyIFCompact.saved
  BY DEF AsPyIFCompact
<1>9. {"h_seq", "spike_seq"} \cap DOMAIN GradientOf = {}
  BY DEF GradientOf
<1> QED
  BY <1>1, <1>2, <1>3, <1>4, <1>5, <1>6, <1>7, <1>8, <1>9 DEF Contract

LEMMA ContractOfPLIF == Contract(AsPyPLIF, "plif")
<1>1. \A i \in 1 .. 3 : /\ AsPyPLIF.gradients[i] \in DOMAIN GradientOf
                        /\ GradientOf[AsPyPLIF.gradients[i]] = AsPyPLIF.outputs[i]
  BY DEF AsPyPLIF, GradientOf
<1>2. Names(AsPyPLIF.gradients) = {"grad_spike_seq", "grad_v_final", "grad_v_seq"}
  BY DEF AsPyPLIF, Names
<1>3. Names(AsPyPLIF.saved) = {"x_seq", "v_prev_seq", "h_seq", "spike_seq", "reciprocal_tau"}
  BY DEF AsPyPLIF, Names
<1>4. \A i \in 1 .. 8 : AsPyPLIF.arguments[i] \in
        {"x_seq", "v_prev_seq", "h_seq", "spike_seq", "reciprocal_tau"}
          \cup {"grad_spike_seq", "grad_v_final", "grad_v_seq"}
  BY DEF AsPyPLIF
<1>5. /\ DOMAIN AsPyPLIF.gradients = 1 .. 3 /\ DOMAIN AsPyPLIF.outputs = 1 .. 3
      /\ DOMAIN AsPyPLIF.arguments = 1 .. 8
  BY DEF AsPyPLIF
<1>6. /\ AsPyPLIF.unpacked = BridgeForward["plif"]
  BY DEF AsPyPLIF, BridgeForward, FullOutputs
<1>7. /\ AsPyPLIF.arguments = BridgeBackward["plif"]
  BY DEF AsPyPLIF, BridgeBackward, FullArguments
<1>8. AsPyPLIF.restored = AsPyPLIF.saved
  BY DEF AsPyPLIF
<1>9. {"x_seq", "v_prev_seq", "h_seq", "spike_seq", "reciprocal_tau"} \cap DOMAIN GradientOf = {}
  BY DEF GradientOf
<1> QED
  BY <1>1, <1>2, <1>3, <1>4, <1>5, <1>6, <1>7, <1>8, <1>9 DEF Contract

LEMMA ContractOfKLIF == Contract(AsPyKLIF, "klif")
<1>1. \A i \in 1 .. 3 : /\ AsPyKLIF.gradients[i] \in DOMAIN GradientOf
                        /\ GradientOf[AsPyKLIF.gradients[i]] = AsPyKLIF.outputs[i]
  BY DEF AsPyKLIF, GradientOf
<1>2. Names(AsPyKLIF.gradients) = {"grad_spike_seq", "grad_v_final", "grad_v_seq"}
  BY DEF AsPyKLIF, Names
<1>3. Names(AsPyKLIF.saved) = {"x_seq", "v_prev_seq", "h_seq", "spike_seq", "k"}
  BY DEF AsPyKLIF, Names
<1>4. \A i \in 1 .. 8 : AsPyKLIF.arguments[i] \in
        {"x_seq", "v_prev_seq", "h_seq", "spike_seq", "k"}
          \cup {"grad_spike_seq", "grad_v_final", "grad_v_seq"}
  BY DEF AsPyKLIF
<1>5. /\ DOMAIN AsPyKLIF.gradients = 1 .. 3 /\ DOMAIN AsPyKLIF.outputs = 1 .. 3
      /\ DOMAIN AsPyKLIF.arguments = 1 .. 8
  BY DEF AsPyKLIF
<1>6. /\ AsPyKLIF.unpacked = BridgeForward["klif"]
  BY DEF AsPyKLIF, BridgeForward, FullOutputs
<1>7. /\ AsPyKLIF.arguments = BridgeBackward["klif"]
  BY DEF AsPyKLIF, BridgeBackward, FullArguments
<1>8. AsPyKLIF.restored = AsPyKLIF.saved
  BY DEF AsPyKLIF
<1>9. {"x_seq", "v_prev_seq", "h_seq", "spike_seq", "k"} \cap DOMAIN GradientOf = {}
  BY DEF GradientOf
<1> QED
  BY <1>1, <1>2, <1>3, <1>4, <1>5, <1>6, <1>7, <1>8, <1>9 DEF Contract

LEMMA ContractOfFedSNN == Contract(AsPyFedSNNDecayLIF, "fedsnn_decay_lif")
<1>1. \A i \in 1 .. 1 : /\ AsPyFedSNNDecayLIF.gradients[i] \in DOMAIN GradientOf
                        /\ GradientOf[AsPyFedSNNDecayLIF.gradients[i]] = AsPyFedSNNDecayLIF.outputs[i]
  BY DEF AsPyFedSNNDecayLIF, GradientOf
<1>2. Names(AsPyFedSNNDecayLIF.gradients) = {"grad_spike_seq"}
  BY DEF AsPyFedSNNDecayLIF, Names
<1>3. Names(AsPyFedSNNDecayLIF.saved) = {"h_seq"}
  BY DEF AsPyFedSNNDecayLIF, Names
<1>4. \A i \in 1 .. 2 : AsPyFedSNNDecayLIF.arguments[i] \in
        {"h_seq"}
          \cup {"grad_spike_seq"}
  BY DEF AsPyFedSNNDecayLIF
<1>5. /\ DOMAIN AsPyFedSNNDecayLIF.gradients = 1 .. 1 /\ DOMAIN AsPyFedSNNDecayLIF.outputs = 1 .. 1
      /\ DOMAIN AsPyFedSNNDecayLIF.arguments = 1 .. 2
  BY DEF AsPyFedSNNDecayLIF
<1>6. /\ AsPyFedSNNDecayLIF.unpacked = BridgeForward["fedsnn_decay_lif"]
  BY DEF AsPyFedSNNDecayLIF, BridgeForward, FullOutputs
<1>7. /\ AsPyFedSNNDecayLIF.arguments = BridgeBackward["fedsnn_decay_lif"]
  BY DEF AsPyFedSNNDecayLIF, BridgeBackward, FullArguments
<1>8. AsPyFedSNNDecayLIF.restored = AsPyFedSNNDecayLIF.saved
  BY DEF AsPyFedSNNDecayLIF
<1>9. {"h_seq"} \cap DOMAIN GradientOf = {}
  BY DEF GradientOf
<1> QED
  BY <1>1, <1>2, <1>3, <1>4, <1>5, <1>6, <1>7, <1>8, <1>9 DEF Contract

LEMMA EveryContract == \A k \in Kernels : Contract(Function(k), k)
<1>1. /\ Function("if") = AsPyIF /\ Function("lif") = AsPyIF
      /\ Function("if_compact") = AsPyIFCompact /\ Function("lif_compact") = AsPyIFCompact
      /\ Function("plif") = AsPyPLIF /\ Function("klif") = AsPyKLIF
      /\ Function("fedsnn_decay_lif") = AsPyFedSNNDecayLIF
  BY DEF Function, AsPyLIF, AsPyLIFCompact
<1> QED
  BY <1>1, ContractOfIF, ContractOfIFCompact, ContractOfPLIF, ContractOfKLIF, ContractOfFedSNN
  DEF Kernels

\* The context of a graph is what its forward kernel saved.
ContextKept ==
  graph # NoGraph => graph.kernel \in Kernels /\ graph.context = SavedTensors(graph.kernel)

LEMMA TryLaunchesForward ==
  ASSUME IInv, IInv', NEW r \in Requests, Try(r)
  PROVE  last'.outcome # "gradient" /\ ContextKept'
<1>1. ASSUME NEW reason, FallBackOrReject(r, reason), graph' = NoGraph
      PROVE  last'.outcome # "gradient" /\ ContextKept'
  BY <1>1, FallBack DEF ContextKept
<1>2. ASSUME NEW a, RaisesAfterLaunch(r, a)
      PROVE  last'.outcome # "gradient" /\ ContextKept'
  BY <1>2 DEF RaisesAfterLaunch, Launched, Idle, ContextKept
<1>3. ASSUME NEW a, ReturnsNative(r, a)
      PROVE  last'.outcome # "gradient" /\ ContextKept'
  <2>1. last'.outcome = Outcome(AcceleratedRoute(r))
    BY <1>3 DEF ReturnsNative, Launched, Idle
  <2>2. Outcome(AcceleratedRoute(r)) # "gradient"
    BY DEF Outcome, AcceleratedRoute
  <2>3. graph' # NoGraph => graph'.context = SavedTensors(graph'.kernel)
    BY <1>3 DEF ReturnsNative
  <2>4. graph' # NoGraph => graph'.kernel \in Kernels
    BY DEF IInv, TypeOK
  <2> QED
    BY <2>1, <2>2, <2>3, <2>4 DEF ContextKept
<1> QED
  BY <1>1, <1>2, <1>3 DEF Try

(* Whatever outputs of whatever neuron a gradient arrives for, the backward*)
(* kernel receives, at each of its positions, what it takes to be there.   *)
THEOREM KernelsGetTheirArguments == Spec => []KernelGetsItsArguments
<1>1. Init => ContextKept /\ KernelGetsItsArguments
  BY DEF Init, Idle, ContextKept, KernelGetsItsArguments
<1>2. IInv /\ IInv' /\ ContextKept /\ KernelGetsItsArguments /\ [Next]_vars
        => ContextKept' /\ KernelGetsItsArguments'
  <2> SUFFICES ASSUME IInv, IInv', ContextKept, KernelGetsItsArguments, [Next]_vars
               PROVE  ContextKept' /\ KernelGetsItsArguments'
    OBVIOUS
  <2>1. ASSUME NEW r \in Requests, Try(r)
        PROVE  ContextKept' /\ KernelGetsItsArguments'
    BY <2>1, TryLaunchesForward DEF KernelGetsItsArguments
  <2>2. CASE Backward
    <3> DEFINE k == graph.kernel
    <3>1. /\ graph # NoGraph /\ k \in Kernels /\ graph.context = SavedTensors(k)
          /\ graph' \in {graph, NoGraph}
      BY <2>2 DEF Backward, ContextKept
    <3>2. \/ last'.outcome = "raised"
          \/ /\ last'.launched = <<k, "backward">>
             /\ last'.received = Received(k, graph.context, last'.used)
      BY <2>2 DEF Backward, Idle
    <3>3. Received(k, SavedTensors(k), last'.used) =
            [i \in DOMAIN BridgeBackward[k] |-> Meant(BridgeBackward[k][i], last'.used)]
      BY <3>1, EveryContract, ContractReceives
    <3>4. KernelGetsItsArguments'
      <4>1. CASE last'.outcome = "raised"
        BY <4>1 DEF KernelGetsItsArguments
      <4>2. CASE /\ last'.launched = <<k, "backward">>
                 /\ last'.received = Received(k, graph.context, last'.used)
        <5>1. last'.launched[1] = k
          BY <4>2
        <5> HIDE DEF k
        <5> QED
          BY <3>1, <3>3, <4>2, <5>1 DEF KernelGetsItsArguments
      <4> QED
        BY <3>2, <4>1, <4>2
    <3> QED
      BY <3>1, <3>4 DEF ContextKept
  <2>3. CASE Environment
    BY <2>3 DEF Environment, Idle, ContextKept, KernelGetsItsArguments
  <2>4. CASE Restart
    BY <2>4 DEF Restart, Idle, ContextKept, KernelGetsItsArguments
  <2>5. CASE UNCHANGED vars
    BY <2>5 DEF vars, ContextKept, KernelGetsItsArguments
  <2> QED
    BY <2>1, <2>2, <2>3, <2>4, <2>5
    DEF Next, TryIfMultiStep, TryLifMultiStep, TryPlifMultiStep, TryKlifMultiStep,
        TryFedSNNDecayLif
<1> QED
  BY <1>1, <1>2, Invariance, PTL DEF Spec

=============================================================================
