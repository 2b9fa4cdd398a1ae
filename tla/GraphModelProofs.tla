--------------------------- MODULE GraphModelProofs ---------------------------
(***************************************************************************)
(* Facts about the model of GraphModel.tla on which the proofs about both  *)
(* graph runners rest.                                                     *)
(*                                                                         *)
(* A runner compares versions to learn of updates.  What versions say is   *)
(* `Agrees`: a capture built in world w under execution state e matches    *)
(* the state in everything but versions; a tensor that has the version of  *)
(* e was not updated since the capture was built, and a tensor that was    *)
(* not has the version of e, unless a capture that did not complete        *)
(* disturbed it (it is in dist).                                           *)
(***************************************************************************)
EXTENDS GraphModel, TLAPS

Agrees(w, e, ver, upd, dist) ==
  /\ w.modes = e.modes
  /\ w.det = e.det
  /\ \A s \in Slots :
       LET t == e.structure.tensors[s] IN
       /\ w.tensors[s].obj = t.obj
       /\ w.tensors[s].ptr = t.ptr
       /\ t.ver <= ver[t.obj]
       /\ w.tensors[s].upd <= upd[t.obj]
       /\ t.ver = ver[t.obj] => w.tensors[s].upd = upd[t.obj]
       /\ w.tensors[s].upd = upd[t.obj] => t.ver = ver[t.obj] \/ t.obj \in dist

(* Versions and updates only grow, and they grow together, disturbed       *)
(* tensors aside.                                                          *)
Monotone ==
  /\ disturbed \subseteq disturbed'
  /\ \A o \in Objs :
       /\ version[o] <= version'[o]
       /\ writes[o] <= writes'[o]
       /\ version'[o] = version[o] => writes'[o] = writes[o]
       /\ writes'[o] = writes[o] => version'[o] = version[o] \/ o \in disturbed'

-----------------------------------------------------------------------------
(* Steps.                                                                  *)

LEMMA SlotObjs == \A s \in Slots : ObjsOf(s) \subseteq Objs
  BY DEF Slots, ObjsOf, Objs

(* An in-place update is monotone and keeps the counters natural.          *)
LEMMA WriteIsMonotone ==
  ASSUME NEW S, version \in [Objs -> Nat], writes \in [Objs -> Nat],
         WriteInPlace(S)
  PROVE  /\ version' \in [Objs -> Nat]
         /\ writes' \in [Objs -> Nat]
         /\ disturbed' = disturbed
         /\ Monotone
  BY DEF WriteInPlace, Monotone

LEMMA ModelChangeStep ==
  ASSUME ModelAssumption, ModelTypeOK, ModelChange
  PROVE  ModelTypeOK' /\ Monotone /\ disturbed' = disturbed
<1>1. CASE SetTraining
  BY <1>1 DEF SetTraining, ModelTypeOK, Monotone, tensorVars
<1>2. CASE SetDeterministic
  BY <1>2 DEF SetDeterministic, ModelTypeOK, Monotone, tensorVars
<1>3. CASE SetHook
  BY <1>3 DEF SetHook, ModelTypeOK, Monotone, tensorVars
<1>4. CASE UpdateInPlace
  BY <1>4, WriteIsMonotone DEF UpdateInPlace, ModelTypeOK
<1>5. CASE Rebind
  BY <1>5, SlotObjs DEF Rebind, ModelTypeOK, Monotone
<1>6. CASE MoveStorage
  BY <1>6 DEF MoveStorage, ModelTypeOK, Monotone
<1>7. CASE ReplaceModule
  BY <1>7 DEF ReplaceModule, ModelTypeOK, Monotone, tensorVars, ModelAssumption
<1>8. QED
  BY <1>1, <1>2, <1>3, <1>4, <1>5, <1>6, <1>7 DEF ModelChange

LEMMA RunModelStep ==
  ASSUME ModelTypeOK, RunModel
  PROVE  ModelTypeOK' /\ Monotone /\ disturbed' = disturbed
  BY WriteIsMonotone DEF RunModel, ModelTypeOK

LEMMA TracesStep ==
  ASSUME ModelTypeOK, CaptureLeavesTraces
  PROVE  ModelTypeOK' /\ Monotone
<1>1. PICK T, R \in SUBSET {bound[s] : s \in Slots} : DisturbInPlace(T, R)
  BY DEF CaptureLeavesTraces
<1>2. R \subseteq Objs
  BY DEF ModelTypeOK
<1>3. /\ version' \in [Objs -> Nat] /\ writes' \in [Objs -> Nat]
      /\ disturbed' \subseteq Objs /\ Monotone
  BY <1>1, <1>2 DEF DisturbInPlace, Monotone, ModelTypeOK
<1>4. QED
  BY <1>3 DEF CaptureLeavesTraces, ModelTypeOK

LEMMA UnchangedStep ==
  ASSUME ModelTypeOK, UNCHANGED modelVars
  PROVE  ModelTypeOK' /\ Monotone /\ disturbed' = disturbed
  BY DEF ModelTypeOK, Monotone, modelVars, tensorVars

LEMMA WorldUnchanged ==
  ASSUME UNCHANGED modelVars
  PROVE  World' = World
  BY DEF modelVars, tensorVars, World, DeterministicCaptureState,
         TrainingCaptureRequested

LEMMA RestoreStep ==
  ASSUME ModelTypeOK, CaptureRestores
  PROVE  ModelTypeOK' /\ World' = World /\ UNCHANGED <<writes, unit>>
         /\ disturbed' = {}
<1>1. /\ writes' = writes /\ disturbed' = {}
      /\ UNCHANGED <<training, deterministic, hooked, bound, storage, unit>>
  BY DEF CaptureRestores, RestoreInPlace
<1>2. version' \in [Objs -> Nat]
  BY DEF CaptureRestores, RestoreInPlace, ModelTypeOK
<1>3. World' = World
  BY <1>1 DEF World, DeterministicCaptureState, TrainingCaptureRequested
<1>4. QED
  BY <1>1, <1>2, <1>3 DEF ModelTypeOK

-----------------------------------------------------------------------------
(* Signatures.                                                             *)

LEMMA StateType ==
  ASSUME ModelAssumption, ModelTypeOK
  PROVE  ExecutionState \in States /\ World \in Worlds
<1>1. DeterministicCaptureState \in SUBSET BOOLEAN
  BY DEF DeterministicCaptureState, ModelTypeOK
<1>2. LeafIds[unit] \in Nat
  BY DEF ModelTypeOK, ModelAssumption
<1>3. QED
  BY <1>1, <1>2 DEF ExecutionState, StructureSignature, World, States, Worlds,
                    ModelTypeOK

LEMMA StateTypeNext ==
  ASSUME ModelAssumption, ModelTypeOK'
  PROVE  ExecutionState' \in States
<1>1. DeterministicCaptureState' \in SUBSET BOOLEAN
  BY DEF DeterministicCaptureState, ModelTypeOK
<1>2. LeafIds[unit'] \in Nat
  BY DEF ModelTypeOK, ModelAssumption
<1>3. QED
  BY <1>1, <1>2 DEF ExecutionState, StructureSignature, States, ModelTypeOK

(* What comparing execution states buys: a capture that agrees with the    *)
(* present one was built in the present world ...                          *)
LEMMA AgreementIsFreshness ==
  ASSUME ModelTypeOK, NEW w \in Worlds,
         Agrees(w, ExecutionState, version, writes, disturbed)
  PROVE  w = World
<1>1. w.modes = World.modes /\ w.det = World.det
  BY DEF Agrees, ExecutionState, World
<1>2. ASSUME NEW s \in Slots PROVE w.tensors[s] = World.tensors[s]
  BY DEF Agrees, ExecutionState, StructureSignature, World, Worlds, ModelTypeOK
<1>3. w.tensors = World.tensors
  BY <1>2 DEF Worlds, World
<1>4. QED
  BY <1>1, <1>3 DEF Worlds, World

(* ... and what it does not cost: in the present world, with the present   *)
(* submodule and nothing disturbed, the state it agrees with is the        *)
(* present one.                                                            *)
LEMMA FreshnessIsEquality ==
  ASSUME ModelTypeOK, NEW e \in States,
         Agrees(World, e, version, writes, disturbed),
         \A s \in Slots : bound[s] \notin disturbed,
         e.structure.module = LeafIds[unit]
  PROVE  e = ExecutionState
<1>1. e.modes = ExecutionState.modes /\ e.det = ExecutionState.det
  BY DEF Agrees, ExecutionState, World
<1>2. ASSUME NEW s \in Slots
      PROVE  e.structure.tensors[s] = StructureSignature.tensors[s]
  BY DEF Agrees, StructureSignature, World, States, ModelTypeOK
<1>3. e.structure.tensors = StructureSignature.tensors
  BY <1>2 DEF States, StructureSignature
<1>4. e.structure = ExecutionState.structure
  BY <1>3 DEF States, StructureSignature, ExecutionState
<1>5. QED
  BY <1>1, <1>4 DEF States, ExecutionState

(* A capture built now agrees with the state its cleanup leaves.           *)
LEMMA FreshnessIsAgreement ==
  ASSUME ModelTypeOK', World' = World
  PROVE  Agrees(World, ExecutionState', version', writes', disturbed')
<1>1. Agrees(World', ExecutionState', version', writes', disturbed')
  BY DEF Agrees, ExecutionState, StructureSignature, World, ModelTypeOK
<1>2. QED
  BY <1>1

(* Updates do not disturb an agreement.                                    *)
LEMMA UpdateKeepsAgreement ==
  ASSUME ModelTypeOK, ModelTypeOK', Monotone,
         NEW w \in Worlds, NEW e \in States,
         Agrees(w, e, version, writes, disturbed)
  PROVE  Agrees(w, e, version', writes', disturbed')
<1> SUFFICES ASSUME NEW s \in Slots, NEW t, t = e.structure.tensors[s]
             PROVE  /\ t.ver <= version'[t.obj]
                    /\ w.tensors[s].upd <= writes'[t.obj]
                    /\ t.ver = version'[t.obj] => w.tensors[s].upd = writes'[t.obj]
                    /\ w.tensors[s].upd = writes'[t.obj] =>
                         t.ver = version'[t.obj] \/ t.obj \in disturbed'
  BY DEF Agrees
<1>1. t.obj \in Objs /\ t.ver \in Nat /\ w.tensors[s].upd \in Nat
  BY DEF States, Worlds
<1>2. /\ t.ver <= version[t.obj]
      /\ w.tensors[s].upd <= writes[t.obj]
      /\ t.ver = version[t.obj] => w.tensors[s].upd = writes[t.obj]
      /\ w.tensors[s].upd = writes[t.obj] =>
           t.ver = version[t.obj] \/ t.obj \in disturbed
  BY DEF Agrees
<1>3. /\ version[t.obj] \in Nat /\ version'[t.obj] \in Nat
      /\ writes[t.obj] \in Nat /\ writes'[t.obj] \in Nat
      /\ version[t.obj] <= version'[t.obj]
      /\ writes[t.obj] <= writes'[t.obj]
      /\ version'[t.obj] = version[t.obj] => writes'[t.obj] = writes[t.obj]
      /\ writes'[t.obj] = writes[t.obj] =>
           version'[t.obj] = version[t.obj] \/ t.obj \in disturbed'
      /\ t.obj \in disturbed => t.obj \in disturbed'
  BY <1>1 DEF Monotone, ModelTypeOK
<1>4. QED
  BY <1>1, <1>2, <1>3
=============================================================================
