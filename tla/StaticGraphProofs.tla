--------------------------- MODULE StaticGraphProofs ---------------------------
(***************************************************************************)
(* What StaticGraph.tla states, proved for every model, every set of input *)
(* signatures and every policy, and what GraphCapture.tla states of the    *)
(* capture inside it, for every model (whichever of its names share        *)
(* tensors), every number of devices, and any number of disturbances and   *)
(* of failing copies.                                                      *)
(*                                                                         *)
(* The runner keeps the execution state its graph was captured under.  The *)
(* invariant is that the graph's world agrees with that state (`Agrees` of *)
(* GraphModelProofs.tla): then an equal state is an equal world, and the   *)
(* graph is dropped only when its world is gone.  Captures that do not     *)
(* complete disturb nothing here: no graph is held while they run.         *)
(*                                                                         *)
(* Each cleanup step of a capture runs once, so what it put back has to    *)
(* survive the steps after it: none takes back what is back already        *)
(* (`RestoreKeeps`), whether it succeeds itself or not.  With that, the    *)
(* steps behind the cleanup are reported or their category is back         *)
(* (`Progress`), and the structure, which the others do change, is         *)
(* recorded by the last step.                                              *)
(***************************************************************************)
EXTENDS StaticGraph, GraphCapture, GraphModelProofs, FiniteSetTheorems, SequenceTheorems

SlotType == {NoCapture} \cup
            [graphed : {TRUE}, state : States, input : Inputs,
             stamp : Worlds, unit : 1..Len(LeafIds)]

SlotAgrees ==
  Captured => /\ Agrees(slot.stamp, slot.state, version, writes, disturbed)
              /\ disturbed = {}
              /\ slot.state.structure.module = LeafIds[slot.unit]

IInv ==
  /\ ModelTypeOK
  /\ slot \in SlotType
  /\ SlotAgrees
  /\ ReplayFresh

-----------------------------------------------------------------------------
(* The slot.                                                               *)

LEMMA CapturedType ==
  ASSUME slot \in SlotType, Captured
  PROVE  /\ slot.state \in States /\ slot.stamp \in Worlds
         /\ slot.input \in Inputs /\ slot.unit \in 1..Len(LeafIds)
<1>1. slot # NoCapture
  BY DEF NoCapture, Captured
<1>2. slot \in [graphed : {TRUE}, state : States, input : Inputs,
                stamp : Worlds, unit : 1..Len(LeafIds)]
  BY <1>1 DEF SlotType
<1>3. QED
  BY <1>2

(* A step that builds no graph and only lets the counters grow.            *)
LEMMA QuietStep ==
  ASSUME IInv, ModelTypeOK', Monotone, last'.kind # "graph",
         slot' = NoCapture \/ (slot' = slot /\ disturbed' = disturbed)
  PROVE  IInv'
<1>1. CASE slot' = NoCapture
  BY <1>1 DEF IInv, SlotType, SlotAgrees, ReplayFresh, Captured, NoCapture
<1>2. CASE slot' = slot /\ disturbed' = disturbed
  <2>1. SlotAgrees'
    <3> SUFFICES ASSUME Captured
                 PROVE  Agrees(slot.stamp, slot.state, version', writes', disturbed')
      BY <1>2 DEF IInv, SlotAgrees, Captured
    <3>1. slot.state \in States /\ slot.stamp \in Worlds
      BY CapturedType DEF IInv
    <3>2. QED
      BY <3>1, UpdateKeepsAgreement DEF IInv, SlotAgrees
  <2>2. QED
    BY <1>2, <2>1 DEF IInv, ReplayFresh
<1>3. QED
  BY <1>1, <1>2

(* The graph a replay uses is of the present world and the call's input.   *)
LEMMA UseSlotStep ==
  ASSUME ModelAssumption, IInv, NEW i \in Inputs, UseSlot(i)
  PROVE  /\ ModelTypeOK' /\ slot' \in SlotType /\ SlotAgrees'
         /\ Captured' /\ slot'.stamp = World' /\ slot'.input = i
         /\ World' = World
<1>1. CASE ~MustCapture /\ slot.input = i /\ UNCHANGED <<slot, modelVars>>
  <2>1. Captured /\ slot.state = ExecutionState
    BY <1>1 DEF MustCapture, StateChanged
  <2>2. slot.stamp \in Worlds
    BY <2>1, CapturedType DEF IInv
  <2>3. slot.stamp = World
    BY <2>1, <2>2, AgreementIsFreshness DEF IInv, SlotAgrees
  <2>4. World' = World
    BY <1>1, WorldUnchanged
  <2>5. ModelTypeOK'
    BY <1>1, UnchangedStep DEF IInv
  <2>6. SlotAgrees'
    BY <1>1 DEF IInv, SlotAgrees, Captured, modelVars, tensorVars
  <2>7. QED
    BY <1>1, <2>1, <2>3, <2>4, <2>5, <2>6 DEF IInv, Captured
<1>2. CASE /\ CaptureRestores
           /\ slot' = [graphed |-> TRUE, state |-> ExecutionState', input |-> i,
                       stamp |-> World, unit |-> unit]
  <2>1. ModelTypeOK' /\ World' = World /\ unit' = unit /\ disturbed' = {}
    BY <1>2, RestoreStep DEF IInv
  <2>2. ExecutionState' \in States /\ World \in Worlds
    BY <2>1, StateType, StateTypeNext DEF IInv
  <2>3. slot' \in SlotType
    BY <1>2, <2>2 DEF SlotType, IInv, ModelTypeOK
  <2>4. Agrees(World, ExecutionState', version', writes', disturbed')
    BY <2>1, FreshnessIsAgreement
  <2>5. ExecutionState'.structure.module = LeafIds[unit]
    BY <2>1 DEF ExecutionState, StructureSignature
  <2>6. QED
    BY <1>2, <2>1, <2>3, <2>4, <2>5 DEF SlotAgrees, Captured
<1>3. QED
  BY <1>1, <1>2 DEF UseSlot

-----------------------------------------------------------------------------
(* Freshness.                                                              *)

LEMMA InvStep ==
  ASSUME ModelAssumption, IInv, [Next]_vars
  PROVE  IInv'
<1>1. CASE UNCHANGED vars
  <2>1. ModelTypeOK' /\ World' = World
    BY <1>1, UnchangedStep, WorldUnchanged DEF vars, IInv
  <2>2. SlotAgrees'
    BY <1>1 DEF vars, runnerVars, modelVars, tensorVars, IInv, SlotAgrees, Captured
  <2>3. QED
    BY <1>1, <2>1, <2>2 DEF vars, runnerVars, IInv, ReplayFresh, Captured
<1>2. CASE CallerChangesModel
  BY <1>2, ModelChangeStep, QuietStep
  DEF CallerChangesModel, runnerVars, IInv, Idle, Outcome
<1>3. CASE ResetCapture
  BY <1>3, UnchangedStep, QuietStep DEF ResetCapture, IInv, Idle, Outcome
<1>4. CASE CallPoisoned
  BY <1>4, UnchangedStep, QuietStep DEF CallPoisoned, runnerVars, IInv, Outcome
<1>5. CASE RouteFallbackOrRaise
  <2>1. ModelTypeOK' /\ Monotone /\ disturbed' = disturbed
    BY <1>5, UnchangedStep, RunModelStep DEF RouteFallbackOrRaise, IInv
  <2>2. last'.kind \in {"rejected", "eager"}
    BY <1>5 DEF RouteFallbackOrRaise, Outcome
  <2>3. QED
    BY <1>5, <2>1, <2>2, QuietStep DEF RouteFallbackOrRaise
<1>6. CASE CaptureUnavailable
  BY <1>6, UnchangedStep, QuietStep DEF CaptureUnavailable, IInv, Outcome
<1>7. CASE CaptureFails
  <2>1. ModelTypeOK' /\ Monotone /\ slot' = NoCapture /\ last'.kind # "graph"
    BY <1>7, TracesStep DEF CaptureFails, IInv, Outcome
  <2>2. QED
    BY <2>1, QuietStep
<1>8. CASE CaptureInterrupted
  <2>1. ModelTypeOK' /\ Monotone /\ slot' = NoCapture /\ last'.kind # "graph"
    BY <1>8, TracesStep DEF CaptureInterrupted, IInv, Outcome
  <2>2. QED
    BY <2>1, QuietStep
<1>9. ASSUME NEW i \in Inputs, Replay(i) PROVE IInv'
  BY <1>9, UseSlotStep DEF Replay, GraphOf, IInv, ReplayFresh
<1>10. ASSUME NEW i \in Inputs, ReplayFails(i) PROVE IInv'
  BY <1>10, UseSlotStep DEF ReplayFails, Outcome, IInv, ReplayFresh
<1>11. ASSUME NEW i \in Inputs, ReplayInterrupted(i) PROVE IInv'
  BY <1>11, UseSlotStep DEF ReplayInterrupted, Outcome, IInv, ReplayFresh
<1>12. QED
  BY <1>1, <1>2, <1>3, <1>4, <1>5, <1>6, <1>7, <1>8, <1>9, <1>10, <1>11
  DEF Next, CallUnsupported, CallRejected, CallUninspectable, CallMismatched

LEMMA Inductive == Spec => []IInv
<1>1. Init => IInv
  <2> SUFFICES ASSUME Init PROVE IInv
    OBVIOUS
  <2>1. 1 \in 1..Len(LeafIds)
    BY ModelAssumption DEF ModelAssumption
  <2>2. ModelTypeOK
    BY <2>1 DEF Init, ModelInit, ModelTypeOK
  <2>3. QED
    BY <2>2 DEF Init, IInv, SlotType, SlotAgrees, ReplayFresh, Captured, NoCapture,
                Idle, Outcome
<1>2. IInv /\ [Next]_vars => IInv'
  BY InvStep, ModelAssumption
<1>3. QED
  BY <1>1, <1>2, PTL DEF Spec

(* A replay that returned used a graph of the present world, for the input *)
(* signature of its call, whatever the caller changed or wrote in between. *)
THEOREM FreshReplays == Spec => []ReplayFresh
<1>1. IInv => ReplayFresh
  BY DEF IInv
<1>2. QED
  BY <1>1, Inductive, PTL

(* The graph is never given up while it could be replayed: neither another *)
(* input nor the capture's own restoring copies cost it.                   *)
THEOREM KeepsCapture == Spec => CaptureKept
<1>1. ASSUME IInv, Captured, slot.stamp = World, slot.unit = unit
      PROVE  ~MustCapture
  <2>1. slot.state \in States
    BY <1>1, CapturedType DEF IInv
  <2>2. slot.state = ExecutionState
    BY <1>1, <2>1, FreshnessIsEquality DEF IInv, SlotAgrees
  <2>3. QED
    BY <1>1, <2>2 DEF MustCapture, StateChanged
<1>2. ASSUME IInv, [Next]_vars
      PROVE  [Captured /\ slot' # slot =>
                slot.stamp # World \/ slot.unit # unit
                \/ (last' = Idle /\ slot' = NoCapture)]_vars
  <2>1. ASSUME Next, slot' # slot PROVE MustCapture \/ ResetCapture
    BY <2>1 DEF Next, CallerChangesModel, CallPoisoned, CallUnsupported,
                CallRejected, CallUninspectable, CallMismatched,
                RouteFallbackOrRaise, CaptureUnavailable, CaptureFails,
                CaptureInterrupted, Replay, ReplayFails, ReplayInterrupted,
                UseSlot, runnerVars
  <2>2. QED
    BY <1>1, <1>2, <2>1 DEF ResetCapture
<1>3. QED
  BY <1>2, Inductive, PTL DEF CaptureKept, Spec

-----------------------------------------------------------------------------
(* Refinement.                                                             *)

(* Keeping the graph or not is giving graphs up at most.                   *)
LEMMA DropsGraphs ==
  ASSUME slot' \in {slot, NoCapture}
  PROVE  Routing!DropGraphs({})
  BY DEF Routing!DropGraphs, Routing!NoGraph, Captured, NoCapture

LEMMA UsesGraph ==
  ASSUME IInv, NEW i \in Inputs, UseSlot(i)
  PROVE  Routing!UseGraph(TheBucket)
<1>1. Captured' /\ slot'.stamp = World /\ World' = World
  BY UseSlotStep, ModelAssumption
<1>2. Routing!DropGraphs({TheBucket})
  BY DEF Routing!DropGraphs
<1>3. QED
  BY <1>1, <1>2 DEF Routing!UseGraph, UseSlot, Admitted, Captured

LEMMA RoutingStep ==
  ASSUME IInv, [Next]_vars
  PROVE  [Routing!Next]_(Routing!vars)
<1>1. CASE UNCHANGED vars
  BY <1>1, WorldUnchanged DEF vars, runnerVars, Routing!vars, Captured
<1>2. CASE CallerChangesModel
  BY <1>2, DropsGraphs
  DEF CallerChangesModel, runnerVars, Idle, Outcome, Routing!Next, Routing!CallerStep
<1>3. CASE ResetCapture
  BY <1>3, DropsGraphs
  DEF ResetCapture, Idle, Outcome, Routing!Next, Routing!CallerStep
<1>4. CASE CallPoisoned
  BY <1>4, WorldUnchanged
  DEF CallPoisoned, runnerVars, Outcome, Captured, Routing!Next, Routing!RefuseForever
<1>5. CASE RouteFallbackOrRaise
  <2>1. CASE Strict
    BY <1>5, <2>1, WorldUnchanged
    DEF RouteFallbackOrRaise, Outcome, Captured, Routing!Next, Routing!Reject
  <2>2. CASE ~Strict
    BY <1>5, <2>2
    DEF RouteFallbackOrRaise, Outcome, Captured, Routing!Next, Routing!RunEagerly
  <2>3. QED
    BY <2>1, <2>2
<1>6. CASE CaptureUnavailable
  BY <1>6, DropsGraphs, WorldUnchanged
  DEF CaptureUnavailable, Admitted, Outcome, Routing!Next, Routing!FailBeforeLaunch
<1>7. CASE CaptureFails
  BY <1>7, DropsGraphs
  DEF CaptureFails, Admitted, Outcome, Routing!Next, Routing!FailCapture
<1>8. CASE CaptureInterrupted
  BY <1>8, DropsGraphs
  DEF CaptureInterrupted, Admitted, Outcome, Routing!Next, Routing!Interrupt
<1>9. ASSUME NEW i \in Inputs, Replay(i) PROVE Routing!Next
  BY <1>9, UsesGraph DEF Replay, GraphOf, Routing!Next, Routing!Replay
<1>10. ASSUME NEW i \in Inputs, ReplayFails(i) PROVE Routing!Next
  BY <1>10, UsesGraph DEF ReplayFails, Outcome, Routing!Next, Routing!FailReplay
<1>11. ASSUME NEW i \in Inputs, ReplayInterrupted(i) PROVE Routing!Next
  BY <1>11, UsesGraph
  DEF ReplayInterrupted, UseSlot, Admitted, Outcome, Routing!Next, Routing!Interrupt
<1>12. QED
  BY <1>1, <1>2, <1>3, <1>4, <1>5, <1>6, <1>7, <1>8, <1>9, <1>10, <1>11
  DEF Next, CallUnsupported, CallRejected, CallUninspectable, CallMismatched

(* The single-slot runner keeps every promise of GraphRouting.             *)
THEOREM Implements == Spec => ImplementsRouting
<1>1. Init => Routing!Init
  BY DEF Init, Routing!Init, Routing!NoGraph, NoCapture, Captured, Idle, Outcome
<1>2. QED
  BY <1>1, RoutingStep, Inductive, PTL DEF Spec, ImplementsRouting, Routing!Spec

-----------------------------------------------------------------------------
(* One capture.                                                            *)

TensorStates == [val : BOOLEAN, meta : BOOLEAN, ptr : BOOLEAN, ver : Nat]

ModelType ==
  /\ tensor \in [Tensors -> TensorStates]
  /\ binding \in [Names -> Tensors \cup {Foreign}]
  /\ named \in [Kinds -> BOOLEAN]
  /\ savedGrad \in [Parameters -> {"none", "saved"}]
  /\ grad \in [Parameters -> {"none", "saved", "dirty", "reshaped"}]
  /\ mapping \in BOOLEAN /\ modes \in BOOLEAN /\ modules \in BOOLEAN
  /\ rng \in [Generators -> BOOLEAN]

\* The steps, and those before the last.
AllSteps == Categories \cup Generators
Early == (Categories \ {"model structure"}) \cup Generators

\* The steps behind the cleanup.
Behind == Len(CleanupSteps) - Len(todo)

Recorded == recorded = [q \in BufferNames |-> tensor[TensorOf[q]].ver]

\* The cleanup runs its steps in order; what is behind it is back or reported.
Progress ==
  /\ todo \in Seq(AllSteps)
  /\ Len(todo) <= Len(CleanupSteps)
  /\ \A i \in 1 .. Len(todo) : todo[i] = CleanupSteps[Behind + i]
  /\ \A i \in 1 .. Behind : CleanupSteps[i] \in errors \/ Back(CleanupSteps[i])
  /\ todo = <<>> => "model structure" \in errors \/ Recorded

CInv ==
  /\ ModelType
  /\ phase # "done" => outcome = "none"
  /\ phase = "cleanup" => Progress
  /\ phase = "done" => outcome = "refused" \/ Progress
  /\ outcome \in {"graphed", "fatal"} => phase = "done" /\ todo = <<>>
  /\ outcome = "graphed" => errors = {}

-----------------------------------------------------------------------------
(* The cleanup's steps.                                                    *)

LEMMA Joined ==
  ASSUME NEW T, NEW a \in Seq(T), NEW b \in Seq(T)
  PROVE  /\ a \o b \in Seq(T)
         /\ Len(a \o b) = Len(a) + Len(b)
         /\ Len(a) \in Nat /\ Len(b) \in Nat
         /\ \A i \in 1 .. Len(a) + Len(b) :
              (a \o b)[i] = IF i <= Len(a) THEN a[i] ELSE b[i - Len(a)]
  BY ConcatProperties

LEMMA StepsAre ==
  /\ CleanupSteps \in Seq(AllSteps)
  /\ Len(CleanupSteps) \in Nat \ {0}
  /\ CleanupSteps[Len(CleanupSteps)] = "model structure"
  /\ \A i \in 1 .. Len(CleanupSteps) - 1 : CleanupSteps[i] # "model structure"
<1> DEFINE S == Categories \cup Generators
           first == <<"model parameters", "model buffers", "parameter gradients",
                      "runtime memories", "module training state", "cpu">>
           end == <<"model structure">>
<1>1. first \in Seq(S)
  BY DEF Categories, Generators
<1>2. Len(first) = 6
  OBVIOUS
<1>3. \A i \in 1 .. 6 : first[i] # "model structure"
  <2> TAKE i \in 1 .. 6
  <2>1. i = 1 \/ i = 2 \/ i = 3 \/ i = 4 \/ i = 5 \/ i = 6
    OBVIOUS
  <2>2. /\ first[1] # "model structure" /\ first[2] # "model structure"
        /\ first[3] # "model structure" /\ first[4] # "model structure"
        /\ first[5] # "model structure" /\ first[6] # "model structure"
    OBVIOUS
  <2> HIDE DEF first
  <2> QED
    BY <2>1, <2>2
<1>4. Devices \in Seq(Range(Devices))
  BY CaptureAssumption
<1>5. Len(Devices) \in Nat /\ \A i \in 1 .. Len(Devices) : Devices[i] \in Generators
  BY <1>4 DEF Generators
<1>6. Devices \in Seq(S)
  <2>1. Range(Devices) \subseteq S
    BY DEF Generators
  <2>2. \A i \in 1 .. Len(Devices) : Devices[i] \in S
    BY <1>5
  <2> HIDE DEF S
  <2> QED
    BY <1>4, <2>1, <2>2
<1>7. \A i \in 1 .. Len(Devices) : Devices[i] # "model structure"
  <2>1. "model structure" \in Categories
    BY DEF Categories
  <2> QED
    BY <1>5, <2>1, CaptureAssumption
<1>8. end \in Seq(S)
  BY DEF Categories
<1>9. Len(end) = 1 /\ end[1] = "model structure"
  OBVIOUS
<1> DEFINE most == first \o Devices
<1>10. CleanupSteps = most \o end
  BY DEF CleanupSteps
<1> HIDE DEF S, first, end
<1>11. most \in Seq(S)
  BY <1>1, <1>6, Joined
<1>12. Len(most) = Len(first) + Len(Devices)
  BY <1>1, <1>6, Joined
<1>13. \A i \in 1 .. Len(first) + Len(Devices) :
         most[i] = IF i <= Len(first) THEN first[i] ELSE Devices[i - Len(first)]
  BY <1>1, <1>6, Joined
<1> HIDE DEF most
<1>14. \A i \in 1 .. Len(most) : most[i] # "model structure"
  <2> TAKE i \in 1 .. Len(most)
  <2>1. i \in 1 .. 6 + Len(Devices)
        /\ most[i] = IF i <= 6 THEN first[i] ELSE Devices[i - 6]
    BY <1>2, <1>12, <1>13
  <2>2. CASE i <= 6
    <3>1. i \in 1 .. 6
      BY <1>5, <2>1, <2>2
    <3> QED
      BY <1>3, <2>1, <2>2, <3>1
  <2>3. CASE ~(i <= 6)
    <3>1. i - 6 \in 1 .. Len(Devices)
      BY <1>5, <2>1, <2>3
    <3> QED
      BY <1>7, <2>1, <2>3, <3>1
  <2> QED
    BY <2>2, <2>3
<1>15. CleanupSteps \in Seq(S)
  BY <1>8, <1>10, <1>11, Joined
<1>16. Len(CleanupSteps) = Len(most) + 1 /\ Len(most) \in Nat
  <2>1. Len(CleanupSteps) = Len(most) + Len(end)
    BY <1>8, <1>10, <1>11, Joined
  <2>2. Len(most) \in Nat
    BY <1>11
  <2> QED
    BY <1>9, <2>1, <2>2
<1>17. \A i \in 1 .. Len(most) + 1 :
         CleanupSteps[i] = IF i <= Len(most) THEN most[i] ELSE end[i - Len(most)]
  BY <1>8, <1>9, <1>10, <1>11, Joined
<1>18. CleanupSteps[Len(CleanupSteps)] = "model structure"
  <2>1. Len(most) + 1 \in 1 .. Len(most) + 1 /\ ~(Len(most) + 1 <= Len(most))
        /\ (Len(most) + 1) - Len(most) = 1
    BY <1>16
  <2> QED
    BY <1>9, <1>16, <1>17, <2>1
<1>19. \A i \in 1 .. Len(CleanupSteps) - 1 : CleanupSteps[i] # "model structure"
  <2> TAKE i \in 1 .. Len(CleanupSteps) - 1
  <2>1. i \in 1 .. Len(most) /\ i \in 1 .. Len(most) + 1 /\ i <= Len(most)
    BY <1>16
  <2> QED
    BY <1>14, <1>17, <2>1
<1>20. Len(CleanupSteps) \in Nat \ {0}
  BY <1>16
<1> QED
  BY <1>15, <1>18, <1>19, <1>20 DEF S, AllSteps

LEMMA StepsType == CleanupSteps \in Seq(AllSteps) /\ Len(CleanupSteps) \in Nat \ {0}
  BY StepsAre, Zenon

LEMMA StepsLength == Len(CleanupSteps) \in Nat /\ Len(CleanupSteps) > 0
  BY StepsType

LEMMA StepsEarly == \A i \in 1 .. Len(CleanupSteps) - 1 : CleanupSteps[i] \in Early
<1> TAKE i \in 1 .. Len(CleanupSteps) - 1
<1>1. CleanupSteps \in Seq(AllSteps) /\ i \in 1 .. Len(CleanupSteps)
  BY StepsType
<1>2. CleanupSteps[i] \in AllSteps
  BY <1>1
<1> QED
  BY <1>2, StepsAre DEF Early, AllSteps

\* What it is for each category to be back.
ParametersBack ==
  named["parameters"] /\ \A p \in Parameters : binding[p] = p /\ tensor[p] = Saved

BuffersBack ==
  /\ named["buffers"]
  /\ \A q \in BufferNames : /\ binding[q] = TensorOf[q]
                            /\ tensor[TensorOf[q]].val /\ tensor[TensorOf[q]].meta

MemoriesBack == mapping /\ \A m \in Range(MemorySeq) : tensor[TensorOf[m]].val

BackIs ==
  /\ Back("model parameters") <=> ParametersBack
  /\ Back("model buffers") <=> BuffersBack
  /\ Back("parameter gradients") <=> grad = savedGrad
  /\ Back("runtime memories") <=> MemoriesBack
  /\ Back("module training state") <=> modes
  /\ \A g \in Generators : Back(g) <=> rng[g]

LEMMA BackIsSo == BackIs /\ BackIs'
<1>1. \A g \in Generators : g \notin Categories
  BY CaptureAssumption
<1>2. BackIs
  BY <1>1 DEF BackIs, Back, ParametersBack, BuffersBack, MemoriesBack, Categories
<1>3. BackIs'
  BY <1>1 DEF BackIs, Back, ParametersBack, BuffersBack, MemoriesBack, Categories
<1> QED
  BY <1>2, <1>3

\* A step takes back none of what is back.
Kept == \A c \in Early : Back(c) => Back(c)'

EachKept ==
  /\ ParametersBack => ParametersBack'
  /\ BuffersBack => BuffersBack'
  /\ grad = savedGrad => grad' = savedGrad'
  /\ MemoriesBack => MemoriesBack'
  /\ modes => modes'
  /\ \A g \in Generators : rng[g] => rng'[g]

LEMMA KeptIsSo == EachKept => Kept
  BY BackIsSo DEF EachKept, BackIs, Kept, Early, Categories

-----------------------------------------------------------------------------
(* Restores.                                                               *)

LEMMA HomesAre ==
  /\ \A p \in Parameters : p \in Tensors /\ HomeOf(p) = p /\ p \in Names
  /\ \A q \in DOMAIN TensorOf : TensorOf[q] \in Tensors \ Parameters
  /\ \A q \in BufferNames : q \in DOMAIN TensorOf /\ q \in Names /\ q \notin Parameters
                        /\ HomeOf(q) = TensorOf[q]
  /\ \A i \in 1 .. Len(BufferSeq) : BufferSeq[i] \in BufferNames
  /\ \A i \in 1 .. Len(MemorySeq) : MemorySeq[i] \in DOMAIN TensorOf
  /\ \A q \in BufferNames : \E i \in 1 .. Len(BufferSeq) : BufferSeq[i] = q
  /\ \A m \in Range(MemorySeq) : \E i \in 1 .. Len(MemorySeq) : MemorySeq[i] = m
  /\ Len(BufferSeq) \in Nat /\ Len(MemorySeq) \in Nat
<1>1. DOMAIN BufferSeq = 1 .. Len(BufferSeq) /\ DOMAIN MemorySeq = 1 .. Len(MemorySeq)
      /\ Len(BufferSeq) \in Nat /\ Len(MemorySeq) \in Nat
  BY CaptureAssumption
<1>2. /\ \A q \in BufferNames : \E i \in 1 .. Len(BufferSeq) : BufferSeq[i] = q
      /\ \A m \in Range(MemorySeq) : \E i \in 1 .. Len(MemorySeq) : MemorySeq[i] = m
      /\ \A i \in 1 .. Len(BufferSeq) : BufferSeq[i] \in BufferNames
      /\ \A i \in 1 .. Len(MemorySeq) : MemorySeq[i] \in Range(MemorySeq)
  BY <1>1 DEF BufferNames, Range
<1> QED
  BY <1>1, <1>2, CaptureAssumption DEF HomeOf, Names, Tensors

\* What copying back changes: values are the saved ones, and versions move on.
LEMMA CopyingBack ==
  ASSUME tensor \in [Tensors -> TensorStates], NEW names, NEW k \in Nat, CopyBack(names, k),
         \A i \in 1 .. k : names[i] \in DOMAIN TensorOf
  PROVE  /\ tensor' \in [Tensors -> TensorStates]
         /\ \A t \in Tensors :
              /\ tensor'[t].val \/ tensor'[t].val = tensor[t].val
              /\ tensor'[t].meta = tensor[t].meta /\ tensor'[t].ptr = tensor[t].ptr
         /\ \A p \in Parameters : tensor'[p] = tensor[p]
         /\ \A i \in 1 .. k : tensor'[TensorOf[names[i]]].val
<1> DEFINE hits(t) == {i \in 1 .. k : TensorOf[names[i]] = t}
           copies(t) == Cardinality(hits(t))
<1>1. ASSUME NEW t PROVE copies(t) \in Nat /\ (copies(t) = 0 <=> hits(t) = {})
  <2>1. IsFiniteSet(1 .. k)
    BY FS_Interval
  <2>2. hits(t) \subseteq 1 .. k
    OBVIOUS
  <2>3. IsFiniteSet(hits(t))
    BY <2>1, <2>2, FS_Subset
  <2> HIDE DEF hits
  <2> QED
    BY <2>3, FS_CardinalityType, FS_EmptySet
<1>2. tensor' = [t \in Tensors |->
         IF copies(t) = 0 THEN tensor[t]
         ELSE [tensor[t] EXCEPT !.val = TRUE, !.ver = @ + copies(t)]]
  BY DEF CopyBack
<1> HIDE DEF copies
<1>3. ASSUME NEW t \in Tensors
      PROVE  /\ tensor'[t] \in TensorStates
             /\ tensor'[t].val \/ tensor'[t].val = tensor[t].val
             /\ tensor'[t].meta = tensor[t].meta /\ tensor'[t].ptr = tensor[t].ptr
             /\ hits(t) # {} => tensor'[t].val
             /\ hits(t) = {} => tensor'[t] = tensor[t]
  <2>1. tensor[t] \in TensorStates /\ copies(t) \in Nat
    BY <1>1
  <2>2. CASE copies(t) = 0
    BY <1>1, <1>2, <2>1, <2>2
  <2>3. CASE copies(t) # 0
    <3>1. tensor'[t] = [tensor[t] EXCEPT !.val = TRUE, !.ver = @ + copies(t)]
      BY <1>2, <2>3
    <3>2. tensor[t].ver + copies(t) \in Nat
      BY <2>1 DEF TensorStates
    <3>3. hits(t) # {}
      BY <1>1, <2>3
    <3> HIDE DEF hits
    <3> QED
      BY <2>1, <3>1, <3>2, <3>3 DEF TensorStates
  <2> QED
    BY <2>2, <2>3
<1>4. \A p \in Parameters : p \in Tensors /\ hits(p) = {}
  BY HomesAre
<1>5. \A i \in 1 .. k : TensorOf[names[i]] \in Tensors /\ i \in hits(TensorOf[names[i]])
  BY HomesAre
<1>6. tensor' = [t \in Tensors |-> tensor'[t]]
  BY <1>2
<1> HIDE DEF hits
<1>7. tensor' \in [Tensors -> TensorStates]
  BY <1>3, <1>6
<1> QED
  BY <1>3, <1>4, <1>5, <1>7

LEMMA ParametersRestored ==
  ASSUME ModelType, NEW ok \in BOOLEAN, NEW fault \in BOOLEAN,
         RestoreParameters(ok, fault), UNCHANGED savedGrad
  PROVE  ModelType' /\ EachKept /\ (ok => ParametersBack')
<1> DEFINE dirty == {p \in Parameters : /\ named["parameters"]
                                        /\ SameParameter(p) /\ ~tensor[p].val}
<1>1. PICK some \in SUBSET dirty :
        /\ ~fault => some = dirty
        /\ tensor' = [t \in Tensors |->
             IF t \in some THEN [tensor[t] EXCEPT !.val = TRUE, !.ver = @ + 1]
                           ELSE tensor[t]]
  BY DEF RestoreParameters
<1>2. /\ ok <=> /\ named["parameters"] /\ ~fault
                /\ \A p \in Parameters : SameParameter(p) /\ tensor[p] = Saved
      /\ UNCHANGED <<binding, named, grad, mapping, modes, modules, rng>>
  BY DEF RestoreParameters
<1>3. \A t \in some : t \in Parameters /\ tensor[t] # Saved
  BY DEF Saved
<1>4. \A t \in Tensors : t \notin some => tensor'[t] = tensor[t]
  BY <1>1
<1>5. tensor' \in [Tensors -> TensorStates]
  <2> HIDE DEF dirty
  <2>1. ASSUME NEW t \in Tensors PROVE tensor'[t] \in TensorStates
    <3>1. tensor[t] \in TensorStates
      BY DEF ModelType
    <3>2. tensor'[t] = tensor[t] \/ tensor'[t] = [tensor[t] EXCEPT !.val = TRUE, !.ver = @ + 1]
      BY <1>1
    <3>3. tensor[t].ver + 1 \in Nat
      BY <3>1 DEF TensorStates
    <3>4. [tensor[t] EXCEPT !.val = TRUE, !.ver = @ + 1] \in TensorStates
      BY <3>1, <3>3 DEF TensorStates
    <3> QED
      BY <3>1, <3>2, <3>4
  <2>2. tensor' = [t \in Tensors |-> tensor'[t]]
    BY <1>1
  <2> QED
    BY <2>1, <2>2
<1> HIDE DEF dirty
<1>6. ModelType'
  BY <1>2, <1>5 DEF ModelType
<1>7. (\A p \in Parameters : tensor[p] = Saved) => \A p \in Parameters : tensor'[p] = Saved
  BY <1>3, <1>4, HomesAre
<1>8. ParametersBack => ParametersBack'
  BY <1>2, <1>7 DEF ParametersBack
<1>9. \A q \in DOMAIN TensorOf : tensor'[TensorOf[q]] = tensor[TensorOf[q]]
  BY <1>3, <1>4, HomesAre
<1>10. (BuffersBack => BuffersBack') /\ (MemoriesBack => MemoriesBack')
  BY <1>2, <1>9, HomesAre, CaptureAssumption DEF BuffersBack, MemoriesBack
<1>11. EachKept
  BY <1>2, <1>8, <1>10 DEF EachKept
<1>12. ok => ParametersBack'
  BY <1>2, <1>7 DEF ParametersBack, SameParameter
<1> QED
  BY <1>6, <1>11, <1>12

\* What copying back does for the categories.
LEMMA CopiesKeep ==
  ASSUME ModelType, NEW names, NEW k \in Nat, CopyBack(names, k),
         \A i \in 1 .. k : names[i] \in DOMAIN TensorOf,
         mapping' \in BOOLEAN, mapping => mapping',
         UNCHANGED <<binding, named, grad, modes, modules, rng, savedGrad>>
  PROVE  /\ ModelType' /\ EachKept
         /\ \A i \in 1 .. k : tensor'[TensorOf[names[i]]].val
         /\ \A q \in DOMAIN TensorOf :
              tensor'[TensorOf[q]].meta = tensor[TensorOf[q]].meta
<1>1. /\ tensor' \in [Tensors -> TensorStates]
      /\ \A t \in Tensors :
           /\ tensor'[t].val \/ tensor'[t].val = tensor[t].val
           /\ tensor'[t].meta = tensor[t].meta /\ tensor'[t].ptr = tensor[t].ptr
      /\ \A p \in Parameters : tensor'[p] = tensor[p]
      /\ \A i \in 1 .. k : tensor'[TensorOf[names[i]]].val
  BY CopyingBack DEF ModelType
<1>2. ModelType'
  BY <1>1 DEF ModelType
<1>3. ParametersBack => ParametersBack'
  BY <1>1 DEF ParametersBack
<1>4. \A q \in DOMAIN TensorOf :
        /\ tensor[TensorOf[q]].val => tensor'[TensorOf[q]].val
        /\ tensor'[TensorOf[q]].meta = tensor[TensorOf[q]].meta
  BY <1>1, HomesAre
<1>5. (BuffersBack => BuffersBack') /\ (MemoriesBack => MemoriesBack')
  BY <1>4, HomesAre, CaptureAssumption DEF BuffersBack, MemoriesBack
<1> QED
  BY <1>1, <1>2, <1>3, <1>4, <1>5 DEF EachKept

LEMMA BuffersRestored ==
  ASSUME ModelType, NEW ok \in BOOLEAN, NEW fault \in BOOLEAN,
         RestoreBuffers(ok, fault), UNCHANGED savedGrad
  PROVE  ModelType' /\ EachKept /\ (ok => BuffersBack')
<1> DEFINE CanCopy(q) == binding[q] = TensorOf[q] /\ tensor[TensorOf[q]].meta
<1>1. UNCHANGED <<binding, named, grad, mapping, modes, modules, rng>>
  BY DEF RestoreBuffers
<1>2. CASE ~named["buffers"]
  <2>1. ~ok /\ UNCHANGED tensor
    BY <1>2 DEF RestoreBuffers
  <2> QED
    BY <1>1, <2>1 DEF ModelType, EachKept, ParametersBack, BuffersBack, MemoriesBack
<1>3. CASE named["buffers"]
  <2>1. PICK k \in 0 .. Len(BufferSeq) :
          /\ \A i \in 1 .. k : CanCopy(BufferSeq[i])
          /\ ok <=> k = Len(BufferSeq)
          /\ CopyBack(BufferSeq, k)
    BY <1>3 DEF RestoreBuffers, CopyLoop
  <2>2. k \in Nat /\ \A i \in 1 .. k : BufferSeq[i] \in DOMAIN TensorOf
    BY HomesAre
  <2>3. /\ ModelType' /\ EachKept
        /\ \A i \in 1 .. k : tensor'[TensorOf[BufferSeq[i]]].val
        /\ \A q \in DOMAIN TensorOf :
             tensor'[TensorOf[q]].meta = tensor[TensorOf[q]].meta
    BY <1>1, <2>1, <2>2, CopiesKeep DEF ModelType
  <2>4. ASSUME ok, NEW q \in BufferNames
        PROVE  /\ binding'[q] = TensorOf[q]
               /\ tensor'[TensorOf[q]].val /\ tensor'[TensorOf[q]].meta
    <3>1. PICK i \in 1 .. Len(BufferSeq) : BufferSeq[i] = q
      BY HomesAre
    <3>2. i \in 1 .. k /\ q \in DOMAIN TensorOf
      BY <2>1, <2>4, <3>1, HomesAre
    <3> QED
      BY <1>1, <2>1, <2>3, <3>1, <3>2
  <2> QED
    BY <1>1, <1>3, <2>3, <2>4 DEF BuffersBack
<1> QED
  BY <1>2, <1>3

LEMMA GradientsRestored ==
  ASSUME ModelType, NEW ok \in BOOLEAN, NEW fault \in BOOLEAN,
         RestoreGradients(ok, fault), UNCHANGED savedGrad
  PROVE  ModelType' /\ EachKept /\ (ok => grad' = savedGrad')
<1>1. PICK some \in SUBSET Parameters :
        /\ ok => some = Parameters
        /\ grad' = [p \in Parameters |-> IF p \in some THEN savedGrad[p] ELSE grad[p]]
  BY DEF RestoreGradients
<1>2. UNCHANGED <<tensor, binding, named, mapping, modes, modules, rng>>
  BY DEF RestoreGradients
<1>3. grad' \in [Parameters -> {"none", "saved", "dirty", "reshaped"}]
  BY <1>1 DEF ModelType
<1>4. ModelType'
  BY <1>2, <1>3 DEF ModelType
<1>5. ok \/ grad = savedGrad => grad' = savedGrad
  BY <1>1 DEF ModelType
<1> QED
  BY <1>2, <1>4, <1>5 DEF EachKept, ParametersBack, BuffersBack, MemoriesBack

LEMMA MemoriesRestored ==
  ASSUME ModelType, NEW ok \in BOOLEAN, NEW fault \in BOOLEAN,
         RestoreMemories(ok, fault), UNCHANGED savedGrad
  PROVE  ModelType' /\ EachKept /\ (ok => MemoriesBack')
<1>1. /\ UNCHANGED <<binding, named, grad, modes, modules, rng>>
      /\ mapping' = (ok \/ mapping)
  BY DEF RestoreMemories
<1>2. PICK k \in 0 .. Len(MemorySeq) :
        (ok <=> k = Len(MemorySeq)) /\ CopyBack(MemorySeq, k)
  BY DEF RestoreMemories, CopyLoop
<1>3. k \in Nat /\ \A i \in 1 .. k : MemorySeq[i] \in DOMAIN TensorOf
  BY HomesAre
<1>4. mapping' \in BOOLEAN /\ (mapping => mapping')
  BY <1>1 DEF ModelType
<1>5. /\ ModelType' /\ EachKept
      /\ \A i \in 1 .. k : tensor'[TensorOf[MemorySeq[i]]].val
  BY <1>1, <1>2, <1>3, <1>4, CopiesKeep
<1>6. ASSUME ok, NEW m \in Range(MemorySeq)
      PROVE  tensor'[TensorOf[m]].val
  <2>1. PICK i \in 1 .. Len(MemorySeq) : MemorySeq[i] = m
    BY HomesAre
  <2> QED
    BY <1>2, <1>5, <1>6, <2>1
<1> QED
  BY <1>1, <1>5, <1>6 DEF MemoriesBack

LEMMA GeneratorRestored ==
  ASSUME ModelType, NEW g \in Generators, NEW ok \in BOOLEAN, NEW fault \in BOOLEAN,
         RestoreGenerator(g, ok, fault), UNCHANGED savedGrad
  PROVE  ModelType' /\ EachKept /\ (ok => rng'[g])
<1>1. /\ rng' = [rng EXCEPT ![g] = ok \/ @]
      /\ UNCHANGED <<tensor, binding, named, grad, mapping, modes, modules>>
  BY DEF RestoreGenerator
<1>2. rng' \in [Generators -> BOOLEAN]
  BY <1>1 DEF ModelType
<1> QED
  BY <1>1, <1>2 DEF ModelType, EachKept, ParametersBack, BuffersBack, MemoriesBack

\* A step keeps what is back, and puts its own category back or fails.
LEMMA RestoreKeeps ==
  ASSUME ModelType, NEW step, NEW ok \in BOOLEAN, NEW fault \in BOOLEAN,
         Restore(step, ok, fault), UNCHANGED savedGrad
  PROVE  ModelType' /\ Kept /\ step \in Early /\ (ok => Back(step)')
<1>1. CASE step = "model parameters" /\ RestoreParameters(ok, fault)
  BY <1>1, ParametersRestored, BackIsSo, KeptIsSo DEF BackIs, Early, Categories
<1>2. CASE step = "model buffers" /\ RestoreBuffers(ok, fault)
  BY <1>2, BuffersRestored, BackIsSo, KeptIsSo DEF BackIs, Early, Categories
<1>3. CASE step = "parameter gradients" /\ RestoreGradients(ok, fault)
  BY <1>3, GradientsRestored, BackIsSo, KeptIsSo DEF BackIs, Early, Categories
<1>4. CASE step = "runtime memories" /\ RestoreMemories(ok, fault)
  BY <1>4, MemoriesRestored, BackIsSo, KeptIsSo DEF BackIs, Early, Categories
<1>5. CASE step = "module training state" /\ RestoreTrainingModes(ok, fault)
  <2>1. ModelType' /\ EachKept /\ modes'
    BY <1>5 DEF RestoreTrainingModes, ModelType, EachKept, ParametersBack,
                BuffersBack, MemoriesBack
  <2> QED
    BY <1>5, <2>1, BackIsSo, KeptIsSo DEF BackIs, Early, Categories
<1>6. CASE step \in Generators /\ RestoreGenerator(step, ok, fault)
  BY <1>6, GeneratorRestored, BackIsSo, KeptIsSo DEF BackIs, Early
<1> QED
  BY <1>1, <1>2, <1>3, <1>4, <1>5, <1>6 DEF Restore

-----------------------------------------------------------------------------
(* The capture.                                                            *)

LEMMA CaptureStart == CaptureInit => CInv
<1> SUFFICES ASSUME CaptureInit PROVE CInv
  OBVIOUS
<1>1. tensor \in [Tensors -> TensorStates]
  BY DEF CaptureInit, Saved, TensorStates
<1>2. \A n \in Names : HomeOf(n) \in Tensors
  BY HomesAre DEF Names
<1>3. binding \in [Names -> Tensors \cup {Foreign}]
  BY <1>2 DEF CaptureInit
<1>4. ModelType
  BY <1>1, <1>3 DEF CaptureInit, ModelType
<1> QED
  BY <1>4 DEF CaptureInit, CInv

\* Before the cleanup nothing but the types matters.
LEMMA WarmUpKeeps ==
  ASSUME CInv, WarmUp
  PROVE  CInv'
<1>0. savedGrad' = savedGrad
  BY DEF WarmUp
<1>1. CASE TouchTensor
  <2>0. PICK t \in Tensors :
          \E d \in {[val |-> FALSE, ver |-> tensor[t].ver + 1],
                    [val |-> TRUE,  ver |-> tensor[t].ver + 1],
                    [val |-> FALSE, ver |-> tensor[t].ver]} :
            tensor' = [tensor EXCEPT ![t].val = d.val, ![t].ver = d.ver]
    BY <1>1 DEF TouchTensor
  <2>1. PICK value \in BOOLEAN, count \in {tensor[t].ver, tensor[t].ver + 1} :
          tensor' = [tensor EXCEPT ![t].val = value, ![t].ver = count]
    <3> DEFINE n == tensor[t].ver
               u == [val |-> FALSE, ver |-> n + 1]
               w == [val |-> TRUE, ver |-> n + 1]
               x == [val |-> FALSE, ver |-> n]
    <3>1. PICK d \in {u, w, x} : tensor' = [tensor EXCEPT ![t].val = d.val, ![t].ver = d.ver]
      BY <2>0
    <3>3. d = u \/ d = w \/ d = x
      BY <3>1
    <3> HIDE DEF n
    <3>2. d.val \in BOOLEAN /\ d.ver \in {n, n + 1}
      <4>1. CASE d = u
        BY <4>1
      <4>2. CASE d = w
        BY <4>2
      <4>3. CASE d = x
        BY <4>3
      <4> QED
        BY <3>3, <4>1, <4>2, <4>3
    <3> QED
      BY <3>1, <3>2 DEF n
  <2>2. tensor[t] \in TensorStates
    BY DEF CInv, ModelType
  <2>3. count \in Nat
    BY <2>2 DEF TensorStates
  <2>4. [tensor[t] EXCEPT !.val = value, !.ver = count] \in TensorStates
    BY <2>2, <2>3 DEF TensorStates
  <2>5. tensor' = [tensor EXCEPT ![t] = [tensor[t] EXCEPT !.val = value, !.ver = count]]
    BY <2>1 DEF CInv, ModelType
  <2>6. tensor' \in [Tensors -> TensorStates]
    BY <2>4, <2>5 DEF CInv, ModelType
  <2> QED
    BY <1>0, <1>1, <2>6 DEF CInv, ModelType, WarmUp, TouchTensor
<1>2. CASE MoveTensor
  <2>1. PICK t \in Tensors, sameShape \in BOOLEAN :
          tensor' = [tensor EXCEPT ![t].val = FALSE, ![t].ptr = FALSE, ![t].meta = sameShape]
    BY <1>2 DEF MoveTensor
  <2>2. tensor[t] \in TensorStates
    BY DEF CInv, ModelType
  <2>3. [tensor[t] EXCEPT !.val = FALSE, !.ptr = FALSE, !.meta = sameShape] \in TensorStates
    BY <2>2 DEF TensorStates
  <2>4. tensor' = [tensor EXCEPT ![t] =
                     [tensor[t] EXCEPT !.val = FALSE, !.ptr = FALSE, !.meta = sameShape]]
    BY <2>1 DEF CInv, ModelType
  <2>5. tensor' \in [Tensors -> TensorStates]
    BY <2>3, <2>4 DEF CInv, ModelType
  <2> QED
    BY <1>0, <1>2, <2>5 DEF CInv, ModelType, WarmUp, MoveTensor
<1>3. CASE ReplaceTensor
  BY <1>0, <1>3 DEF CInv, ModelType, WarmUp, ReplaceTensor
<1>4. CASE RegisterName
  BY <1>0, <1>4 DEF CInv, ModelType, WarmUp, RegisterName
<1>5. CASE TouchGradient
  BY <1>0, <1>5 DEF CInv, ModelType, WarmUp, TouchGradient
<1>6. CASE TouchMapping \/ TouchModes \/ TouchModules
  BY <1>0, <1>6 DEF CInv, ModelType, WarmUp, TouchMapping, TouchModes, TouchModules
<1>7. CASE DrawRandom
  BY <1>0, <1>7 DEF CInv, ModelType, WarmUp, DrawRandom
<1> QED
  BY <1>1, <1>2, <1>3, <1>4, <1>5, <1>6, <1>7 DEF WarmUp

LEMMA StepsStay == CleanupSteps' = CleanupSteps
  BY DEF CleanupSteps

\* What is left of the steps, and what is behind.
LEMMA StepsLeft ==
  ASSUME Progress
  PROVE  /\ Len(todo) \in Nat /\ Len(todo) <= Len(CleanupSteps)
         /\ todo # <<>> => Len(todo) > 0
         /\ todo = <<>> => Behind = Len(CleanupSteps)
<1>1. todo \in Seq(AllSteps) /\ Len(todo) <= Len(CleanupSteps)
  BY DEF Progress
<1>2. Len(todo) \in Nat /\ (todo # <<>> => Len(todo) > 0)
  BY <1>1
<1>3. todo = <<>> => Len(todo) = 0
  OBVIOUS
<1> QED
  BY <1>1, <1>2, <1>3, StepsLength DEF Behind

LEMMA LaunchEndsKeeps ==
  ASSUME CInv, LaunchEnds
  PROVE  CInv'
<1>1. /\ phase' = "cleanup" /\ todo' = CleanupSteps /\ outcome' = "none"
      /\ UNCHANGED <<capturedVars, savedGrad>>
  BY DEF LaunchEnds, CInv
<1>2. ModelType'
  BY <1>1 DEF CInv, ModelType, capturedVars
<1>3. Behind' = 0 /\ todo' # <<>>
  <2>1. Len(todo') = Len(CleanupSteps)
    BY <1>1
  <2> QED
    BY <2>1, StepsLength, StepsStay DEF Behind
<1>4. todo' \in Seq(AllSteps)
  BY <1>1, StepsAre
<1>5. \A i \in 1 .. Len(todo') : todo'[i] = CleanupSteps'[Behind' + i]
  <2>1. \A i \in 1 .. Len(todo') : 0 + i = i
    OBVIOUS
  <2> QED
    BY <1>1, <1>3, <2>1, StepsStay
<1>6. Len(todo') <= Len(CleanupSteps')
  BY <1>1, StepsStay, StepsLength
<1>7. \A i \in 1 .. Behind' : CleanupSteps'[i] \in errors' \/ Back(CleanupSteps[i])'
  BY <1>3
<1>8. Progress'
  BY <1>3, <1>4, <1>5, <1>6, <1>7 DEF Progress
<1> QED
  BY <1>1, <1>2, <1>8 DEF CInv

\* What a cleanup step does, whichever it is.
LEMMA StepKeeps ==
  ASSUME ModelType, NEW step, NEW ok \in BOOLEAN, NEW fault \in BOOLEAN,
         \/ Restore(step, ok, fault)
         \/ step = "model structure" /\ Finalize(ok, fault),
         UNCHANGED savedGrad
  PROVE  /\ ModelType' /\ Kept
         /\ ok /\ step # "model structure" => Back(step)'
         /\ ok /\ step = "model structure" => Back(step)' /\ Recorded'
<1>1. CASE Restore(step, ok, fault)
  <2>1. "model structure" \notin Early
    BY CaptureAssumption DEF Early, Categories
  <2> QED
    BY <1>1, <2>1, RestoreKeeps
<1>2. CASE step = "model structure" /\ Finalize(ok, fault)
  <2>1. UNCHANGED capturedVars /\ (ok => StructureUnchanged)
        /\ (ok => recorded' = [q \in BufferNames |-> tensor[TensorOf[q]].ver])
    BY <1>2 DEF Finalize
  <2>2. ModelType' /\ EachKept
    BY <2>1 DEF capturedVars, ModelType, EachKept, ParametersBack, BuffersBack, MemoriesBack
  <2>3. "model structure" \notin Generators
    BY CaptureAssumption DEF Categories
  <2>4. ok => Back("model structure")'
    BY <2>1, <2>3 DEF capturedVars, Back, StructureUnchanged
  <2>5. ok => Recorded'
    BY <2>1 DEF capturedVars, Recorded
  <2> QED
    BY <1>2, <2>2, <2>4, <2>5, KeptIsSo
<1> QED
  BY <1>1, <1>2

LEMMA CleanupStepKeeps ==
  ASSUME CInv, CleanupStep
  PROVE  CInv'
<1>1. /\ phase = "cleanup" /\ phase' = "cleanup" /\ outcome = "none" /\ outcome' = "none"
      /\ todo # <<>> /\ todo' = Tail(todo) /\ UNCHANGED savedGrad
      /\ ModelType /\ Progress
  BY DEF CleanupStep, CInv
<1>0. PICK step : step = Head(todo)
  OBVIOUS
<1>2. PICK ok \in BOOLEAN, fault \in BOOLEAN :
        /\ \/ Restore(step, ok, fault)
           \/ step = "model structure" /\ Finalize(ok, fault)
        /\ errors' = IF ok THEN errors ELSE errors \cup {step}
  BY <1>0 DEF CleanupStep
<1>3. /\ ModelType' /\ Kept
      /\ ok /\ step # "model structure" => Back(step)'
      /\ ok /\ step = "model structure" => Back(step)' /\ Recorded'
  BY <1>1, <1>2, StepKeeps
<1>a. todo \in Seq(AllSteps)
  BY <1>1 DEF Progress
<1>4. /\ Len(todo) \in Nat \ {0}
      /\ Len(todo) <= Len(CleanupSteps) /\ Len(CleanupSteps) \in Nat
  BY <1>1, StepsLeft, StepsLength
<1>5. /\ todo' \in Seq(AllSteps) /\ Len(todo') = Len(todo) - 1
      /\ \A i \in 1 .. Len(todo) - 1 : todo'[i] = todo[i + 1]
  BY <1>1, <1>4, <1>a
<1>6. Behind \in Nat /\ Behind' = Behind + 1 /\ Behind + 1 \in 1 .. Len(CleanupSteps)
  BY <1>4, <1>5, StepsStay DEF Behind
<1>7. step = CleanupSteps[Behind + 1]
  <2>1. Head(todo) = todo[1] /\ 1 \in 1 .. Len(todo)
    BY <1>4, <1>a
  <2> QED
    BY <1>0, <1>1, <1>6, <2>1 DEF Progress
<1>8. \A i \in 1 .. Len(todo') : todo'[i] = CleanupSteps[Behind' + i]
  <2> TAKE i \in 1 .. Len(todo')
  <2>1. i \in 1 .. Len(todo) - 1
    BY <1>5
  <2>2. i \in Nat /\ i + 1 \in 1 .. Len(todo)
    BY <1>4, <2>1
  <2>3. Behind + (i + 1) = (Behind + 1) + i
    BY <1>6, <2>2
  <2> QED
    BY <1>1, <1>5, <1>6, <2>1, <2>2, <2>3 DEF Progress
<1>9. step \in errors' \/ Back(step)'
  BY <1>2, <1>3
<1>10. ASSUME NEW i \in 1 .. Behind'
       PROVE  CleanupSteps[i] \in errors' \/ Back(CleanupSteps[i])'
  <2>1. CASE i = Behind + 1
    <3>1. CleanupSteps[i] = step
      BY <1>7, <2>1
    <3> QED
      BY <1>9, <3>1
  <2>2. CASE i # Behind + 1
    <3>1. i \in 1 .. Behind /\ i \in 1 .. Len(CleanupSteps) - 1
      BY <1>6, <2>2
    <3>2. CleanupSteps[i] \in errors \/ Back(CleanupSteps[i])
      BY <1>1, <3>1 DEF Progress
    <3>3. CleanupSteps[i] \in Early
      BY <3>1, StepsEarly
    <3>4. Back(CleanupSteps[i]) => Back(CleanupSteps[i])'
      BY <1>3, <3>3 DEF Kept
    <3> QED
      BY <1>2, <3>2, <3>4
  <2> QED
    BY <2>1, <2>2
<1>11. todo' = <<>> => "model structure" \in errors' \/ Recorded'
  <2>1. SUFFICES ASSUME todo' = <<>> PROVE "model structure" \in errors' \/ Recorded'
    OBVIOUS
  <2>2. Behind + 1 = Len(CleanupSteps)
    <3>1. Len(todo') = 0
      BY <2>1
    <3>2. Len(todo) = 1
      BY <1>4, <1>5, <3>1
    <3> QED
      BY <1>4, <3>2 DEF Behind
  <2>3. step = "model structure"
    BY <1>7, <2>2, StepsAre
  <2> QED
    BY <1>2, <1>3, <2>3
<1>b. \A i \in 1 .. Len(todo') : todo'[i] = CleanupSteps'[Behind' + i]
  BY <1>8, StepsStay
<1>c. \A i \in 1 .. Behind' : CleanupSteps'[i] \in errors' \/ Back(CleanupSteps[i])'
  BY <1>10, StepsStay
<1>d. Len(todo') <= Len(CleanupSteps')
  BY <1>4, <1>5, StepsStay
<1>12. Progress'
  BY <1>5, <1>11, <1>b, <1>c, <1>d DEF Progress
<1> QED
  BY <1>1, <1>3, <1>12 DEF CInv

\* A step that leaves the cleanup's state alone.
LEMMA ProgressStays ==
  ASSUME Progress, UNCHANGED <<capturedVars, savedGrad, todo, errors, recorded>>
  PROVE  Progress'
<1>1. \A c : Back(c)' <=> Back(c)
  BY DEF capturedVars, Back, StructureUnchanged
<1>2. Recorded' <=> Recorded
  BY DEF capturedVars, Recorded
<1>3. Behind' = Behind
  BY StepsStay DEF Behind
<1> QED
  BY <1>1, <1>2, <1>3, StepsStay DEF Progress

LEMMA CaptureNext == CInv /\ [CaptureStep]_captureVars => CInv'
<1> SUFFICES ASSUME CInv, [CaptureStep]_captureVars PROVE CInv'
  OBVIOUS
<1>1. CASE RefuseCapture
  BY <1>1 DEF RefuseCapture, CInv, ModelType, capturedVars
<1>2. CASE Launch
  BY <1>2 DEF Launch, CInv, ModelType, capturedVars
<1>3. CASE CleanupCut
  <2>1. Progress'
    BY <1>3, ProgressStays DEF CleanupCut, CInv
  <2> QED
    BY <1>3, <2>1 DEF CleanupCut, CInv, ModelType, capturedVars
<1>4. CASE Conclude
  <2>1. Progress'
    BY <1>4, ProgressStays DEF Conclude, CInv
  <2> QED
    BY <1>4, <2>1 DEF Conclude, CInv, ModelType, capturedVars
<1>5. CASE UNCHANGED captureVars
  <2>1. Progress => Progress'
    BY <1>5, ProgressStays DEF captureVars
  <2> QED
    BY <1>5, <2>1 DEF captureVars, CInv, ModelType, capturedVars
<1> QED
  BY <1>1, <1>2, <1>3, <1>4, <1>5, WarmUpKeeps, LaunchEndsKeeps, CleanupStepKeeps DEF CaptureStep

LEMMA CaptureInvariance == CaptureSpec => []CInv
  BY CaptureStart, CaptureNext, PTL DEF CaptureSpec

\* What is behind the cleanup is all there is.
LEMMA AllBehind ==
  ASSUME Progress, todo = <<>>
  PROVE  /\ \A i \in 1 .. Len(CleanupSteps) :
              CleanupSteps[i] \in errors \/ Back(CleanupSteps[i])
         /\ "model structure" \in errors \/ Recorded
<1>1. Behind = Len(CleanupSteps)
  BY StepsLeft
<1> QED
  BY <1>1 DEF Progress

(* For every model and however the cleanup's steps end, a category that is *)
(* not back after a capture that returned or failed is named in the error  *)
(* the call ends with; after an interrupt, its own step had failed.        *)
THEOREM EveryCategoryBackOrReported == CaptureSpec => []BackOrReported
<1>1. ASSUME CInv PROVE BackOrReported
  <2> SUFFICES ASSUME NEW i \in 1 .. Len(CleanupSteps),
                      outcome \in {"graphed", "fatal", "interrupted"}, todo = <<>>
               PROVE  /\ CleanupSteps[i] \in errors \/ Back(CleanupSteps[i])
                      /\ outcome = "graphed" => errors = {}
    BY <1>1 DEF CInv, BackOrReported, Reported
  <2>1. Progress
    BY <1>1 DEF CInv
  <2> QED
    BY <1>1, <2>1, AllBehind DEF CInv
<1> QED
  BY <1>1, CaptureInvariance, PTL

(* For every model, a capture that is handed out finds the whole model as  *)
(* the snapshot had it, with the buffer versions the cleanup left.         *)
THEOREM GraphedModelsAreClean == CaptureSpec => []GraphedIsClean
<1>1. CInv => GraphedIsClean
  BY AllBehind DEF CInv, GraphedIsClean, Recorded
<1> QED
  BY <1>1, CaptureInvariance, PTL

=============================================================================
