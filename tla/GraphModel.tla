------------------------------ MODULE GraphModel ------------------------------
(***************************************************************************)
(* The model object a graph runner serves and what a runner can see of it: *)
(* _GraphRunnerSafety in src/spikingjelly_npu/npu/graph.py.                *)
(*                                                                         *)
(* The state is the caller's: training flags, the deterministic-algorithms *)
(* switch, hooks, the tensor objects bound to the parameter and buffer     *)
(* names, the storage and the version counter of each tensor object, and   *)
(* the replaceable submodule.  The runner reads it through signatures.     *)
(* Two variables are auxiliary.  `writes` counts the in-place updates of a *)
(* tensor that last, that is, without the copies by which a capture puts   *)
(* back what its own warm-up wrote.  `disturbed` has the tensors that a    *)
(* capture which did not complete put back: their version has advanced and *)
(* no runner has recorded the new one.                                     *)
(***************************************************************************)
EXTENDS Integers, Sequences, FiniteSets

CONSTANTS
  Modules,              \* names given by named_modules()
  Leaf,                 \* the submodule the caller may replace
  RngModules,           \* modules that draw random numbers while training
  Params, Buffers,      \* names given by named_parameters(), named_buffers()
  Lead,                 \* the first parameter, or the first buffer of a model
                        \* without parameters: it decides the device
  InputsOnNpu,          \* device of the calls' tensors: it decides for a model
                        \* without tensors
  ParamObjs, BufferObjs,    \* tensor objects
  Storages,             \* data pointers
  HostStorages,         \* the data pointers that are not on an NPU
  LeafIds,              \* id() of the successive objects bound to Leaf
  MaxWrites,            \* bound: in-place updates of a tensor that last
  MaxVersion,           \* bound: version up to which captures restore a tensor
  MaxDisturbed,         \* bound: tensors disturbed at once
  GraphSafe,            \* _declares_graph_safe()
  AllowTraining, RequireDeterministic, AllowUnsafeRng,
  Strict

Slots == Params \cup Buffers
Objs == ParamObjs \cup BufferObjs
ObjsOf(s) == IF s \in Params THEN ParamObjs ELSE BufferObjs

ASSUME ModelAssumption ==
  /\ Leaf \in Modules
  /\ RngModules \subseteq Modules
  /\ Slots # {} => Lead \in Slots
  /\ Params # {} => Lead \in Params
  /\ Params \cap Buffers = {}
  /\ ParamObjs \cap BufferObjs = {}
  /\ HostStorages \subseteq Storages
  /\ LeafIds \in Seq(Nat) /\ LeafIds # <<>>
  /\ {MaxWrites, MaxVersion, MaxDisturbed} \subseteq Nat
  /\ {GraphSafe, AllowTraining, RequireDeterministic, AllowUnsafeRng, Strict,
      InputsOnNpu} \subseteq BOOLEAN

VARIABLES
  training,       \* module.training of every module
  deterministic,  \* strict deterministic algorithms are on
  hooked,         \* some module carries a hook
  bound,          \* the tensor object each name is bound to
  storage,        \* the data pointer of each tensor object
  version,        \* tensor._version of each tensor object
  unit,           \* the object bound to Leaf is the unit-th one
  writes,         \* auxiliary, see above
  disturbed       \* auxiliary, see above

tensorVars == <<bound, storage, version, writes, disturbed>>
modelVars == <<training, deterministic, hooked, unit, tensorVars>>

ModelTypeOK ==
  /\ training \in [Modules -> BOOLEAN]
  /\ deterministic \in BOOLEAN
  /\ hooked \in BOOLEAN
  /\ bound \in [Slots -> Objs]
  /\ storage \in [Objs -> Storages]
  /\ version \in [Objs -> Nat]
  /\ unit \in 1..Len(LeafIds)
  /\ writes \in [Objs -> Nat]
  /\ disturbed \subseteq Objs

ModelInit ==
  /\ training = [m \in Modules |-> TRUE]      \* modules are born training
  /\ deterministic = FALSE
  /\ hooked = FALSE
  /\ bound \in [Slots -> Objs]
  /\ \A s \in Slots : bound[s] \in ObjsOf(s)
  /\ storage \in [Objs -> Storages]
  /\ version = [o \in Objs |-> 0]
  /\ unit = 1
  /\ writes = [o \in Objs |-> 0]
  /\ disturbed = {}

-----------------------------------------------------------------------------
(* What the runner reads.                                                  *)

(* Fault: only the submodule's own flag is read.                           *)
MutLeafTraining == training[Leaf]

TrainingCaptureRequested == \E m \in Modules : training[m]

OnNpu == IF Slots = {} THEN InputsOnNpu
                       ELSE storage[bound[Lead]] \notin HostStorages

RngSensitive == \E m \in RngModules : training[m]

(* The rejections decided from the model alone, in the order of __call__;  *)
(* they differ only in the reason they record.                             *)
FallbackRequired ==
  \/ ~OnNpu
  \/ ~GraphSafe
  \/ TrainingCaptureRequested /\ ~AllowTraining
  \/ TrainingCaptureRequested /\ RequireDeterministic /\ ~deterministic
  \/ TrainingCaptureRequested /\ RngSensitive /\ ~AllowUnsafeRng
  \/ hooked

(* None unless a module trains.                                            *)
DeterministicCaptureState ==
  IF TrainingCaptureRequested THEN {deterministic} ELSE {}

(* Faults: a signature without versions, one without modules.              *)
MutUnversioned ==
  [module  |-> LeafIds[unit],
   tensors |-> [s \in Slots |-> [obj |-> bound[s],
                                 ptr |-> storage[bound[s]],
                                 ver |-> 0]]]
MutModuleless ==
  [module  |-> 0,
   tensors |-> [s \in Slots |-> [obj |-> bound[s],
                                 ptr |-> storage[bound[s]],
                                 ver |-> version[bound[s]]]]]

(* id(), data_ptr() and _version of every named tensor, id() of every      *)
(* module.                                                                 *)
StructureSignature ==
  [module  |-> LeafIds[unit],
   tensors |-> [s \in Slots |-> [obj |-> bound[s],
                                 ptr |-> storage[bound[s]],
                                 ver |-> version[bound[s]]]]]

ExecutionState ==
  [modes     |-> training,
   det       |-> DeterministicCaptureState,
   structure |-> StructureSignature]

(* What a replay depends on, submodules apart: the execution state with    *)
(* the caller's updates in the place of versions.                          *)
World ==
  [modes   |-> training,
   det     |-> DeterministicCaptureState,
   tensors |-> [s \in Slots |-> [obj |-> bound[s],
                                 ptr |-> storage[bound[s]],
                                 upd |-> writes[bound[s]]]]]

(* Their types.                                                            *)
Worlds == [modes : [Modules -> BOOLEAN], det : SUBSET BOOLEAN,
           tensors : [Slots -> [obj : Objs, ptr : Storages, upd : Nat]]]
States == [modes : [Modules -> BOOLEAN], det : SUBSET BOOLEAN,
           structure : [module : Nat,
                        tensors : [Slots -> [obj : Objs, ptr : Storages,
                                             ver : Nat]]]]

-----------------------------------------------------------------------------
(* In-place updates: by the caller of the tensors in S; by a capture that  *)
(* puts back what its warm-up wrote (bumps[o] updates in all); and by one  *)
(* that does not complete, of which the updates in T last and those in R   *)
(* have been put back.                                                     *)
WriteInPlace(S) ==
  /\ \A o \in S : writes[o] < MaxWrites
  /\ version' = [o \in Objs |-> IF o \in S THEN version[o] + 1 ELSE version[o]]
  /\ writes' = [o \in Objs |-> IF o \in S THEN writes[o] + 1 ELSE writes[o]]
  /\ UNCHANGED disturbed

(* Fault: putting a value back takes its version back, too.                *)
MutRollBack(bumps) ==
  /\ \A o \in Objs : bumps[o] > 0 => version[o] + bumps[o] <= MaxVersion
  /\ version' = [o \in Objs |-> version[o] - bumps[o]]
  /\ disturbed' = {}
  /\ UNCHANGED writes

RestoreInPlace(bumps) ==
  /\ \A o \in Objs : bumps[o] > 0 => version[o] + bumps[o] <= MaxVersion
  /\ version' = [o \in Objs |-> version[o] + bumps[o]]
  /\ disturbed' = {}
  /\ UNCHANGED writes

DisturbInPlace(T, R) ==
  /\ \A o \in T : writes[o] < MaxWrites
  /\ \A o \in R : version[o] < MaxVersion
  /\ Cardinality(disturbed \cup R) <= MaxDisturbed
  /\ version' = [o \in Objs |-> IF o \in T \cup R THEN version[o] + 1 ELSE version[o]]
  /\ writes' = [o \in Objs |-> IF o \in T THEN writes[o] + 1 ELSE writes[o]]
  /\ disturbed' = disturbed \cup R

BoundBuffers == {bound[s] : s \in Buffers}

(* An eager forward: it may update the model's buffers (batch-norm         *)
(* statistics), nothing else.                                              *)
RunModel ==
  /\ \E S \in SUBSET BoundBuffers : WriteInPlace(S)
  /\ UNCHANGED <<training, deterministic, hooked, bound, storage, unit>>

(* What a capture leaves of the model (GraphCapture.tla).  When it         *)
(* succeeds, every buffer has been put back in place, after a warm-up that *)
(* wrote it or not.                                                        *)
CaptureRestores ==
  /\ \E k \in {1, 2} :
       RestoreInPlace([o \in Objs |-> IF o \in BoundBuffers THEN k ELSE 0])
  /\ UNCHANGED <<training, deterministic, hooked, bound, storage, unit>>

(* When it fails or is interrupted, the cleanup has still copied back what *)
(* it could, until a copy failed or an interrupt cut it: a tensor may be   *)
(* as it was, put back in place or written for good.  Flags and bindings   *)
(* that are left changed are like the caller's own changes after the call. *)
CaptureLeavesTraces ==
  /\ \E T, R \in SUBSET {bound[s] : s \in Slots} : DisturbInPlace(T, R)
  /\ UNCHANGED <<training, deterministic, hooked, bound, storage, unit>>

-----------------------------------------------------------------------------
(* The caller.                                                             *)

SetTraining ==
  /\ training' \in [Modules -> BOOLEAN]
  /\ training' # training
  /\ UNCHANGED <<deterministic, hooked, unit, tensorVars>>

SetDeterministic ==
  /\ deterministic' = ~deterministic
  /\ UNCHANGED <<training, hooked, unit, tensorVars>>

SetHook ==
  /\ hooked' = ~hooked
  /\ UNCHANGED <<training, deterministic, unit, tensorVars>>

(* optimizer.step(), load_state_dict(), a batch-norm update in eager code. *)
UpdateInPlace ==
  /\ \E o \in Objs : WriteInPlace({o})
  /\ UNCHANGED <<training, deterministic, hooked, bound, storage, unit>>

(* module.weight = nn.Parameter(...), module.running_mean = tensor.        *)
Rebind ==
  /\ \E s \in Slots : \E o \in ObjsOf(s) \ {bound[s]} :
       bound' = [bound EXCEPT ![s] = o]
  /\ UNCHANGED <<training, deterministic, hooked, storage, version, unit, writes,
                 disturbed>>

(* parameter.data = tensor, model.to(...): same object, other storage.     *)
MoveStorage ==
  /\ \E o \in Objs : \E p \in Storages \ {storage[o]} :
       storage' = [storage EXCEPT ![o] = p]
  /\ UNCHANGED <<training, deterministic, hooked, bound, version, unit, writes,
                 disturbed>>

(* A fresh submodule in the place of the old one, which is freed; modules  *)
(* are born in training mode.                                              *)
ReplaceModule ==
  /\ unit < Len(LeafIds)
  /\ unit' = unit + 1
  /\ training' = [training EXCEPT ![Leaf] = TRUE]
  /\ UNCHANGED <<deterministic, hooked, tensorVars>>

ModelChange ==
  \/ SetTraining \/ SetDeterministic \/ SetHook \/ UpdateInPlace
  \/ Rebind \/ MoveStorage \/ ReplaceModule
=============================================================================
