-------------------------- MODULE GraphBucketsProofs --------------------------
(***************************************************************************)
(* What GraphBuckets.tla states, proved for every model, every number of   *)
(* buckets and every policy.                                               *)
(*                                                                         *)
(* The runner compares one tracked execution state and then trusts every   *)
(* capture it holds.  Why it may: each of them agrees with the tracked     *)
(* state (`Agrees` of GraphModelProofs.tla), also after the capture of     *)
(* another bucket moved the versions of the buffers they share.            *)
(***************************************************************************)
EXTENDS GraphBuckets, GraphModelProofs

CapturesAgree ==
  \A b \in Buckets : Captured(b) =>
    /\ tracked.tracked
    /\ Agrees(captures[b].stamp, tracked.state, version, writes, disturbed)
    /\ LeafIds[captures[b].unit] = tracked.state.structure.module

(* id() never returns the same value for two objects bound to Leaf.        *)
DistinctIdentities ==
  \A i, j \in 1..Len(LeafIds) : LeafIds[i] = LeafIds[j] => i = j

IInv ==
  /\ TypeOK
  /\ CapturesAgree
  /\ ReplayFresh
  /\ DistinctIdentities => ReplayOnSameModule
  /\ last.kind \in {"captureFailed", "replayFailed"} => poisoned

-----------------------------------------------------------------------------
(* Types.                                                                  *)

(* Dropping the captures or not, the slots keep their type.                *)
LEMMA CurrentCapturesType ==
  ASSUME TypeOK
  PROVE  CurrentCaptures \in [Buckets -> SlotType]
  BY DEF TypeOK, CurrentCaptures, CleanSlots, SlotType

(* What a slot that holds a graph and a tracked state consist of.          *)
LEMMA CapturedType ==
  ASSUME TypeOK, NEW b \in Buckets, Captured(b)
  PROVE  captures[b].stamp \in Worlds /\ captures[b].unit \in 1..Len(LeafIds)
<1>1. captures[b] \in SlotType
  BY DEF TypeOK
<1>2. captures[b] # NoCapture
  BY DEF NoCapture, Captured
<1>3. captures[b] \in [graphed : {TRUE}, stamp : Worlds, unit : 1..Len(LeafIds)]
  BY <1>1, <1>2 DEF SlotType
<1>4. QED
  BY <1>3

LEMMA TrackedType ==
  ASSUME TypeOK, tracked.tracked
  PROVE  tracked.state \in States
<1>1. tracked # NotTracked
  BY DEF NotTracked
<1>2. tracked \in [tracked : {TRUE}, state : States]
  BY <1>1 DEF TypeOK
<1>3. QED
  BY <1>2

LEMMA UseSlotTypes ==
  ASSUME ModelAssumption, TypeOK, NEW b \in Buckets, UseSlot(b)
  PROVE  /\ ModelTypeOK'
         /\ captures' \in [Buckets -> SlotType]
         /\ tracked' \in {NotTracked} \cup [tracked : {TRUE}, state : States]
<1>1. CASE ~MustCapture(b) /\ UNCHANGED <<captures, tracked, modelVars>>
  BY <1>1, UnchangedStep DEF TypeOK
<1>2. CASE /\ CaptureRestores
           /\ captures' = [CurrentCaptures EXCEPT ![b] = Capture(World, unit)]
           /\ tracked' = Tracked(ExecutionState')
  <2>1. ModelTypeOK'
    BY <1>2, RestoreStep DEF TypeOK
  <2>2. ExecutionState' \in States
    BY <2>1, StateTypeNext
  <2>3. Capture(World, unit) \in SlotType
    BY StateType DEF TypeOK, ModelTypeOK, Capture, SlotType
  <2>4. QED
    BY <1>2, <2>1, <2>2, <2>3, CurrentCapturesType DEF Tracked
<1>3. QED
  BY <1>1, <1>2 DEF UseSlot

LEMMA TypeStep ==
  ASSUME ModelAssumption, TypeOK, [Next]_vars
  PROVE  TypeOK'
<1>1. ASSUME UNCHANGED vars PROVE TypeOK'
  BY <1>1, UnchangedStep DEF vars, runnerVars, TypeOK
<1>2. ASSUME CallerChangesModel PROVE TypeOK'
  BY <1>2, ModelChangeStep
  DEF CallerChangesModel, runnerVars, TypeOK, Idle, Outcome, Outcomes
<1>3. ASSUME ResetCapture PROVE TypeOK'
  BY <1>3, UnchangedStep
  DEF ResetCapture, TypeOK, CleanSlots, SlotType, Idle, Outcome, Outcomes
<1>4. ASSUME CallPoisoned PROVE TypeOK'
  BY <1>4, UnchangedStep DEF CallPoisoned, runnerVars, TypeOK, Outcome, Outcomes
<1>5. ASSUME RouteFallbackOrRaise PROVE TypeOK'
  <2>1. ModelTypeOK'
    BY <1>5, UnchangedStep, RunModelStep DEF RouteFallbackOrRaise, TypeOK
  <2>2. last' \in [kind : Outcomes]
    BY <1>5 DEF RouteFallbackOrRaise, Outcome, Outcomes
  <2>3. QED
    BY <1>5, <2>1, <2>2 DEF RouteFallbackOrRaise, TypeOK
<1>6. ASSUME NEW b \in Buckets, CaptureUnavailable(b) PROVE TypeOK'
  BY <1>6, UnchangedStep, CurrentCapturesType, StateType
  DEF CaptureUnavailable, TypeOK, Tracked, Outcome, Outcomes
<1>7. ASSUME NEW b \in Buckets, CaptureFails(b) PROVE TypeOK'
  BY <1>7, TracesStep, CurrentCapturesType, StateType
  DEF CaptureFails, TypeOK, Tracked, Outcome, Outcomes
<1>8. ASSUME NEW b \in Buckets, CaptureInterrupted(b) PROVE TypeOK'
  BY <1>8, TracesStep, CurrentCapturesType, StateType
  DEF CaptureInterrupted, TypeOK, Tracked, Outcome, Outcomes
<1>9. ASSUME NEW b \in Buckets, Replay(b) PROVE TypeOK'
  BY <1>9, UseSlotTypes DEF Replay, TypeOK, GraphOf
<1>10. ASSUME NEW b \in Buckets, ReplayFails(b) PROVE TypeOK'
  BY <1>10, UseSlotTypes DEF ReplayFails, TypeOK, Outcome, Outcomes
<1>11. ASSUME NEW b \in Buckets, ReplayInterrupted(b) PROVE TypeOK'
  BY <1>11, UseSlotTypes DEF ReplayInterrupted, TypeOK, Outcome, Outcomes
<1>12. QED
  BY <1>1, <1>2, <1>3, <1>4, <1>5, <1>6, <1>7, <1>8, <1>9, <1>10, <1>11
  DEF Next, Call, CallUnknown, CallRejected, CallUninspectable

LEMMA TypeInit == Init => TypeOK
<1> SUFFICES ASSUME Init PROVE TypeOK
  OBVIOUS
<1>1. 1 \in 1..Len(LeafIds)
  BY ModelAssumption DEF ModelAssumption
<1>2. ModelTypeOK
  BY <1>1 DEF Init, ModelInit, ModelTypeOK
<1>3. QED
  BY <1>2 DEF Init, TypeOK, CleanSlots, SlotType, Idle, Outcome, Outcomes

(* Every state has the types of TypeOK, whatever the caller does.          *)
THEOREM TypeCorrect == Spec => []TypeOK
<1>1. Init => TypeOK
  BY TypeInit
<1>2. TypeOK /\ [Next]_vars => TypeOK'
  BY TypeStep, ModelAssumption
<1>3. QED
  BY <1>1, <1>2, PTL DEF Spec

-----------------------------------------------------------------------------
(* Freshness.                                                              *)

(* A step that adds no capture and only lets the versions grow.            *)
LEMMA QuietStep ==
  ASSUME TypeOK, ModelTypeOK', Monotone, CapturesAgree,
         captures' \in {captures, CleanSlots},
         tracked' = tracked \/ captures' = CleanSlots
  PROVE  CapturesAgree'
<1> SUFFICES ASSUME NEW b \in Buckets, captures'[b].graphed
             PROVE  /\ tracked'.tracked
                    /\ Agrees(captures'[b].stamp, tracked'.state, version', writes', disturbed')
                    /\ LeafIds[captures'[b].unit] = tracked'.state.structure.module
  BY DEF CapturesAgree, Captured
<1>1. captures' # CleanSlots
  BY DEF CleanSlots, NoCapture
<1>2. captures' = captures /\ tracked' = tracked
  BY <1>1
<1>3. /\ tracked.tracked
      /\ Agrees(captures[b].stamp, tracked.state, version, writes, disturbed)
      /\ LeafIds[captures[b].unit] = tracked.state.structure.module
  BY <1>2 DEF CapturesAgree, Captured
<1>4. tracked.state \in States /\ captures[b].stamp \in Worlds
  BY <1>2, <1>3, TrackedType, CapturedType DEF Captured
<1>5. Agrees(captures[b].stamp, tracked.state, version', writes', disturbed')
  BY <1>3, <1>4, UpdateKeepsAgreement DEF TypeOK
<1>6. QED
  BY <1>2, <1>3, <1>5

(* Replacing the tracked state by the present one drops what disagrees.    *)
LEMMA RetrackStep ==
  ASSUME TypeOK, ModelTypeOK', Monotone, CapturesAgree,
         captures' = CurrentCaptures, tracked' = Tracked(ExecutionState)
  PROVE  CapturesAgree'
<1>1. CASE tracked = Tracked(ExecutionState)
  BY <1>1, QuietStep DEF CurrentCaptures
<1>2. CASE tracked # Tracked(ExecutionState)
  BY <1>2, QuietStep DEF CurrentCaptures
<1>3. QED
  BY <1>1, <1>2

(* The slot a replay uses was built in the present world, and the other    *)
(* captures still agree after a new one has restored the buffers.          *)
LEMMA UseSlotStep ==
  ASSUME ModelAssumption, TypeOK, CapturesAgree, NEW b \in Buckets, UseSlot(b)
  PROVE  /\ CapturesAgree'
         /\ Captured(b)' /\ captures'[b].stamp = World'
         /\ World' = World
         /\ DistinctIdentities => captures'[b].unit = unit'
         /\ \A c \in Buckets \ {b} : captures'[c] \in {captures[c], NoCapture}
<1>1. CASE ~MustCapture(b) /\ UNCHANGED <<captures, tracked, modelVars>>
  <2>1. Captured(b) /\ tracked = Tracked(ExecutionState)
    BY <1>1 DEF MustCapture, CurrentCaptures, CleanSlots, NoCapture, Captured
  <2>2. captures[b].stamp \in Worlds
    BY <2>1, CapturedType
  <2>3. Agrees(captures[b].stamp, ExecutionState, version, writes, disturbed)
    BY <2>1 DEF CapturesAgree, Tracked
  <2>4. captures[b].stamp = World
    BY <2>2, <2>3, AgreementIsFreshness DEF TypeOK
  <2>5. World' = World
    BY <1>1 DEF World, DeterministicCaptureState, TrainingCaptureRequested,
                modelVars, tensorVars
  <2>6. CapturesAgree'
    BY <1>1, UnchangedStep, QuietStep DEF TypeOK
  <2>7. ASSUME DistinctIdentities PROVE captures'[b].unit = unit'
    <3>1. LeafIds[captures[b].unit] = LeafIds[unit]
      BY <2>1 DEF CapturesAgree, Tracked, ExecutionState, StructureSignature
    <3>2. captures[b].unit \in 1..Len(LeafIds) /\ unit \in 1..Len(LeafIds)
      BY <2>1, CapturedType DEF TypeOK, ModelTypeOK
    <3>3. QED
      BY <1>1, <2>7, <3>1, <3>2 DEF DistinctIdentities, modelVars
  <2>8. QED
    BY <1>1, <2>1, <2>4, <2>5, <2>6, <2>7 DEF Captured
<1>2. CASE /\ CaptureRestores
           /\ captures' = [CurrentCaptures EXCEPT ![b] = Capture(World, unit)]
           /\ tracked' = Tracked(ExecutionState')
  <2>1. ModelTypeOK' /\ World' = World
    BY <1>2, RestoreStep DEF TypeOK
  <2>2. ASSUME NEW c \in Buckets, captures'[c].graphed
        PROVE  /\ captures'[c].stamp = World
               /\ LeafIds[captures'[c].unit] = LeafIds[unit]
    <3>1. CASE c = b
      BY <1>2, <3>1, CurrentCapturesType DEF Capture
    <3>2. CASE c # b
      <4>1. captures'[c] = CurrentCaptures[c]
        BY <1>2, <3>2, CurrentCapturesType
      <4>2. Captured(c) /\ tracked = Tracked(ExecutionState)
        BY <2>2, <4>1 DEF CurrentCaptures, CleanSlots, NoCapture, Captured
      <4>3. captures[c].stamp \in Worlds
        BY <4>2, CapturedType
      <4>4. Agrees(captures[c].stamp, ExecutionState, version, writes, disturbed)
        BY <4>2 DEF CapturesAgree, Tracked
      <4>5. LeafIds[captures[c].unit] = LeafIds[unit]
        BY <4>2 DEF CapturesAgree, Tracked, ExecutionState, StructureSignature
      <4>6. QED
        BY <4>1, <4>2, <4>3, <4>4, <4>5, AgreementIsFreshness DEF CurrentCaptures, TypeOK
    <3>3. QED
      BY <3>1, <3>2
  <2>3. Agrees(World, ExecutionState', version', writes', disturbed')
    BY <2>1, FreshnessIsAgreement
  <2>4. unit' = unit
    BY <1>2, RestoreStep DEF TypeOK
  <2>5. CapturesAgree'
    <3>1. ExecutionState'.structure.module = LeafIds[unit]
      BY <2>4 DEF ExecutionState, StructureSignature
    <3>2. QED
      BY <1>2, <2>2, <2>3, <3>1 DEF CapturesAgree, Captured, Tracked
  <2>6. Captured(b)' /\ captures'[b].stamp = World' /\ captures'[b].unit = unit'
    BY <1>2, <2>1, <2>4, CurrentCapturesType DEF Captured, Capture
  <2>7. \A c \in Buckets \ {b} : captures'[c] \in {captures[c], NoCapture}
    BY <1>2, CurrentCapturesType DEF CurrentCaptures, CleanSlots
  <2>8. QED
    BY <2>1, <2>5, <2>6, <2>7
<1>3. QED
  BY <1>1, <1>2 DEF UseSlot

LEMMA InvStep ==
  ASSUME ModelAssumption, IInv, [Next]_vars
  PROVE  IInv'
<1>1. TypeOK'
  BY TypeStep DEF IInv
<1>2. ASSUME CapturesAgree', last'.kind # "graph",
             last'.kind \in {"captureFailed", "replayFailed"} => poisoned'
      PROVE  IInv'
  BY <1>1, <1>2 DEF IInv, ReplayFresh, ReplayOnSameModule
<1> USE <1>1
<1>3. ASSUME UNCHANGED vars PROVE IInv'
  <2>1. CapturesAgree'
    BY <1>3, UnchangedStep, QuietStep DEF vars, runnerVars, IInv, TypeOK
  <2>2. World' = World
    BY <1>3 DEF vars, modelVars, tensorVars, World, DeterministicCaptureState,
                TrainingCaptureRequested
  <2>3. QED
    BY <1>3, <2>1, <2>2 DEF vars, runnerVars, modelVars, IInv, ReplayFresh,
                            ReplayOnSameModule, Captured
<1>4. ASSUME CallerChangesModel PROVE IInv'
  BY <1>2, <1>4, ModelChangeStep, QuietStep
  DEF CallerChangesModel, runnerVars, IInv, TypeOK, Idle, Outcome
<1>5. ASSUME ResetCapture PROVE IInv'
  BY <1>2, <1>5, UnchangedStep, QuietStep
  DEF ResetCapture, IInv, TypeOK, Idle, Outcome
<1>6. ASSUME CallPoisoned PROVE IInv'
  BY <1>2, <1>6, UnchangedStep, QuietStep
  DEF CallPoisoned, runnerVars, IInv, TypeOK, Outcome
<1>7. ASSUME RouteFallbackOrRaise PROVE IInv'
  <2>1. ModelTypeOK' /\ Monotone
    BY <1>7, UnchangedStep, RunModelStep DEF RouteFallbackOrRaise, IInv, TypeOK
  <2>2. last'.kind \in {"rejected", "eager"}
    BY <1>7 DEF RouteFallbackOrRaise, Outcome
  <2>3. CapturesAgree'
    BY <1>7, <2>1, QuietStep DEF RouteFallbackOrRaise, IInv
  <2>4. QED
    BY <1>2, <2>2, <2>3
<1>8. ASSUME NEW b \in Buckets, CaptureUnavailable(b) PROVE IInv'
  BY <1>2, <1>8, UnchangedStep, RetrackStep
  DEF CaptureUnavailable, IInv, TypeOK, Outcome
<1>9. ASSUME NEW b \in Buckets, CaptureFails(b) PROVE IInv'
  BY <1>2, <1>9, TracesStep, RetrackStep DEF CaptureFails, IInv, TypeOK, Outcome
<1>10. ASSUME NEW b \in Buckets, CaptureInterrupted(b) PROVE IInv'
  BY <1>2, <1>10, TracesStep, RetrackStep
  DEF CaptureInterrupted, IInv, TypeOK, Outcome
<1>11. ASSUME NEW b \in Buckets, Replay(b) PROVE IInv'
  BY <1>11, UseSlotStep
  DEF Replay, IInv, ReplayFresh, ReplayOnSameModule, GraphOf, Captured
<1>12. ASSUME NEW b \in Buckets, ReplayFails(b) PROVE IInv'
  BY <1>2, <1>12, UseSlotStep DEF ReplayFails, IInv, Outcome
<1>13. ASSUME NEW b \in Buckets, ReplayInterrupted(b) PROVE IInv'
  BY <1>2, <1>13, UseSlotStep DEF ReplayInterrupted, IInv, Outcome
<1>14. QED
  BY <1>3, <1>4, <1>5, <1>6, <1>7, <1>8, <1>9, <1>10, <1>11, <1>12, <1>13
  DEF Next, Call, CallUnknown, CallRejected, CallUninspectable

LEMMA Inductive == Spec => []IInv
<1>1. Init => IInv
  <2> SUFFICES ASSUME Init PROVE IInv
    OBVIOUS
  <2>1. TypeOK
    BY TypeInit
  <2>2. QED
    BY <2>1 DEF Init, IInv, CapturesAgree, Captured, CleanSlots, NoCapture,
                ReplayFresh, ReplayOnSameModule, Idle, Outcome
<1>2. IInv /\ [Next]_vars => IInv'
  BY InvStep, ModelAssumption
<1>3. QED
  BY <1>1, <1>2, PTL DEF Spec

(* Whatever the caller changes between calls and whichever buckets are     *)
(* captured when, a replay that returned used a graph of the present world.*)
THEOREM FreshReplays == Spec => []ReplayFresh
<1>1. IInv => ReplayFresh
  BY DEF IInv
<1>2. QED
  BY <1>1, Inductive, PTL

(* If id() tells the submodules apart, the graph replayed was also built   *)
(* from the submodule that is bound now.                                   *)
THEOREM FreshModules ==
  ASSUME DistinctIdentities
  PROVE  Spec => []ReplayOnSameModule
<1>1. IInv => ReplayOnSameModule
  BY DEF IInv
<1>2. QED
  BY <1>1, Inductive, PTL

(* A poisoned runner stays poisoned and serves nothing, through resets and *)
(* changes of the model.                                                   *)
THEOREM PoisonHolds == Spec => NothingRunsOncePoisoned
<1>1. ASSUME IInv, [Next]_vars
      PROVE  [/\ last.kind \in {"captureFailed", "replayFailed"} => poisoned
              /\ poisoned => poisoned' /\ last'.kind \in {"poisoned", "idle"}]_vars
  <2> SUFFICES ASSUME Next, poisoned
               PROVE  poisoned' /\ last'.kind \in {"poisoned", "idle"}
    BY <1>1 DEF IInv
  <2> USE DEF Idle, Outcome
  <2>1. CASE CallerChangesModel
    BY <2>1 DEF CallerChangesModel, runnerVars
  <2>2. CASE ResetCapture
    BY <2>2 DEF ResetCapture
  <2>3. CASE CallPoisoned
    BY <2>3 DEF CallPoisoned, runnerVars
  <2>4. QED
    BY <2>1, <2>2, <2>3
    DEF Next, Call, CallUnknown, CallRejected, CallUninspectable, Admitted,
        CaptureUnavailable, CaptureFails, CaptureInterrupted, Replay, ReplayFails,
        ReplayInterrupted
<1>2. QED
  BY <1>1, Inductive, PTL DEF NothingRunsOncePoisoned, Spec

-----------------------------------------------------------------------------
(* What a capture costs and what it may be built from.                     *)

(* Captures are dropped only if the one held for b is of another world or  *)
(* an incomplete capture has disturbed the present one.                    *)
LEMMA DropHasCause ==
  ASSUME IInv, NEW b \in Buckets, Captured(b), CurrentCaptures # captures
  PROVE  \/ captures[b].stamp # World \/ captures[b].unit # unit
         \/ \E s \in Slots : bound[s] \in disturbed
<1> SUFFICES ASSUME captures[b].stamp = World, captures[b].unit = unit,
                    \A s \in Slots : bound[s] \notin disturbed
             PROVE  FALSE
  OBVIOUS
<1>1. /\ tracked.tracked
      /\ Agrees(World, tracked.state, version, writes, disturbed)
      /\ tracked.state.structure.module = LeafIds[unit]
  BY DEF IInv, CapturesAgree
<1>2. tracked # NotTracked /\ tracked.state \in States
  BY <1>1, TrackedType DEF IInv, NotTracked
<1>3. tracked.state = ExecutionState
  BY <1>1, <1>2, FreshnessIsEquality DEF IInv, TypeOK
<1>4. tracked = Tracked(ExecutionState)
  BY <1>2, <1>3 DEF IInv, TypeOK, Tracked
<1>5. QED
  BY <1>4 DEF CurrentCaptures

(* A graph is given up only when it is of no use any more or an            *)
(* interrupted capture has disturbed the model: never because another      *)
(* bucket was captured, a call was rejected or a replay was interrupted.   *)
THEOREM KeepsCaptures == Spec => CapturesKept
<1>1. ASSUME IInv, [Next]_vars
      PROVE  [\A b \in Buckets :
                Captured(b) /\ captures'[b] # captures[b] =>
                  \/ captures[b].stamp # World
                  \/ captures[b].unit # unit
                  \/ tracked' = NotTracked
                  \/ \E s \in Slots : bound[s] \in disturbed]_vars
  <2> SUFFICES ASSUME Next, NEW b \in Buckets, Captured(b),
                      captures'[b] # captures[b], tracked' # NotTracked
               PROVE  CurrentCaptures # captures
    BY <1>1, DropHasCause
  <2>1. ASSUME NEW c \in Buckets, UseSlot(c) PROVE CurrentCaptures # captures
    <3> SUFFICES ASSUME CurrentCaptures = captures PROVE FALSE
      OBVIOUS
    <3>1. captures' = [captures EXCEPT ![c] = Capture(World, unit)] /\ MustCapture(c)
      BY <2>1 DEF UseSlot
    <3>2. c # b
      BY <3>1 DEF MustCapture, Captured
    <3>3. QED
      BY <3>1, <3>2
  <2>2. captures' = CurrentCaptures \/ (\E c \in Buckets : UseSlot(c))
    BY DEF Next, Call, CallUnknown, CallRejected, CallUninspectable,
           RouteFallbackOrRaise, CallerChangesModel, ResetCapture, CallPoisoned,
           CaptureUnavailable, CaptureFails, CaptureInterrupted, Replay,
           ReplayFails, ReplayInterrupted, runnerVars
  <2>3. QED
    BY <2>1, <2>2
<1>2. QED
  BY <1>1, Inductive, PTL DEF CapturesKept, Spec

(* The world a capture is built from passed every rejection.               *)
LEMMA AdmittedWorld ==
  ASSUME ModelAssumption, Admitted
  PROVE  /\ Slots # {} => World.tensors[Lead].ptr \notin HostStorages
         /\ (\E m \in Modules : World.modes[m]) =>
              AllowTraining /\ (RequireDeterministic => World.det = {TRUE})
         /\ (\E m \in RngModules : World.modes[m]) => AllowUnsafeRng
  BY DEF Admitted, FallbackRequired, OnNpu, TrainingCaptureRequested, RngSensitive,
         World, DeterministicCaptureState, Slots, ModelAssumption

(* No graph held was built in a mode the policy excludes, whatever the     *)
(* caller switched before, after or between the calls.                     *)
THEOREM OnlyAdmissible == Spec => []AdmissibleCaptures
<1>1. Init => AdmissibleCaptures
  BY DEF Init, AdmissibleCaptures, Captured, CleanSlots, NoCapture
<1>2. ASSUME TypeOK, AdmissibleCaptures, [Next]_vars
      PROVE  AdmissibleCaptures'
  <2> SUFFICES ASSUME NEW b \in Buckets, captures'[b].graphed,
                      captures'[b] # captures[b]
               PROVE  captures'[b].stamp = World /\ Admitted
    BY <1>2, AdmittedWorld, ModelAssumption DEF AdmissibleCaptures, Captured
  <2>1. captures' # CleanSlots /\ captures' # CurrentCaptures
    BY DEF CurrentCaptures, CleanSlots, NoCapture
  <2>2. PICK c \in Buckets : UseSlot(c) /\ Admitted
    BY <1>2, <2>1
    DEF vars, Next, Call, CallUnknown, CallRejected, CallUninspectable,
        RouteFallbackOrRaise, CallerChangesModel, ResetCapture, CallPoisoned,
        CaptureUnavailable, CaptureFails, CaptureInterrupted, Replay,
        ReplayFails, ReplayInterrupted, runnerVars
  <2>3. captures' = [CurrentCaptures EXCEPT ![c] = Capture(World, unit)]
    BY <2>2 DEF UseSlot
  <2>4. c = b
    BY <2>3, <1>2, CurrentCapturesType DEF CurrentCaptures, CleanSlots, NoCapture
  <2>5. QED
    BY <1>2, <2>2, <2>3, <2>4, CurrentCapturesType DEF Capture
<1>3. QED
  BY <1>1, <1>2, TypeCorrect, PTL DEF Spec

-----------------------------------------------------------------------------
(* Refinement.                                                             *)

(* Keeping the captures or dropping them is giving graphs up at most.      *)
LEMMA DropsGraphs ==
  ASSUME captures' \in {captures, CleanSlots}
  PROVE  Routing!DropGraphs({})
<1>1. \A b \in Buckets : captures'[b] = captures[b] \/ captures'[b] = NoCapture
  BY DEF CleanSlots
<1>2. QED
  BY <1>1 DEF Routing!DropGraphs, Routing!NoGraph, Captured, NoCapture

LEMMA UsesGraph ==
  ASSUME IInv, Admitted, NEW b \in Buckets, UseSlot(b)
  PROVE  Routing!UseGraph(b)
<1>1. /\ Captured(b)' /\ captures'[b].stamp = World
      /\ World' = World
      /\ \A c \in Buckets \ {b} : captures'[c] \in {captures[c], NoCapture}
  BY UseSlotStep, ModelAssumption DEF IInv
<1>2. Routing!DropGraphs({b})
  BY <1>1 DEF Routing!DropGraphs, Routing!NoGraph, Captured, NoCapture
<1>3. QED
  BY <1>1, <1>2 DEF Routing!UseGraph, Captured, Admitted

LEMMA RoutingStep ==
  ASSUME IInv, [Next]_vars
  PROVE  [Routing!Next]_(Routing!vars)
<1>1. CASE UNCHANGED vars
  BY <1>1, WorldUnchanged DEF vars, runnerVars, Routing!vars, Captured
<1>2. CASE CallerChangesModel
  BY <1>2, DropsGraphs
  DEF CallerChangesModel, runnerVars, Idle, Outcome, Routing!Next, Routing!CallerStep
<1>3. CASE ResetCapture
  BY <1>3, DropsGraphs
  DEF ResetCapture, Idle, Outcome, Routing!Next, Routing!CallerStep
<1>4. CASE CallPoisoned
  BY <1>4, WorldUnchanged
  DEF CallPoisoned, runnerVars, Outcome, Captured, Routing!Next, Routing!RefuseForever
<1>5. CASE ~poisoned /\ RouteFallbackOrRaise
  <2>1. CASE Strict
    BY <1>5, <2>1, WorldUnchanged
    DEF RouteFallbackOrRaise, Outcome, Captured, Routing!Next, Routing!Reject
  <2>2. CASE ~Strict
    BY <1>5, <2>2
    DEF RouteFallbackOrRaise, Outcome, Captured, Routing!Next, Routing!RunEagerly
  <2>3. QED
    BY <2>1, <2>2
<1>6. CurrentCaptures \in {captures, CleanSlots}
  BY DEF CurrentCaptures
<1>7. ASSUME NEW b \in Buckets, CaptureUnavailable(b) PROVE Routing!Next
  BY <1>6, <1>7, DropsGraphs, WorldUnchanged
  DEF CaptureUnavailable, Admitted, Outcome, Routing!Next, Routing!FailBeforeLaunch
<1>8. ASSUME NEW b \in Buckets, CaptureFails(b) PROVE Routing!Next
  BY <1>6, <1>8, DropsGraphs
  DEF CaptureFails, Admitted, Outcome, Routing!Next, Routing!FailCapture
<1>9. ASSUME NEW b \in Buckets, CaptureInterrupted(b) PROVE Routing!Next
  BY <1>6, <1>9, DropsGraphs
  DEF CaptureInterrupted, Admitted, Outcome, Routing!Next, Routing!Interrupt
<1>10. ASSUME NEW b \in Buckets, Replay(b) PROVE Routing!Next
  BY <1>10, UsesGraph DEF Replay, GraphOf, Routing!Next, Routing!Replay
<1>11. ASSUME NEW b \in Buckets, ReplayFails(b) PROVE Routing!Next
  BY <1>11, UsesGraph DEF ReplayFails, Outcome, Routing!Next, Routing!FailReplay
<1>12. ASSUME NEW b \in Buckets, ReplayInterrupted(b) PROVE Routing!Next
  BY <1>12, UsesGraph
  DEF ReplayInterrupted, Admitted, Outcome, Routing!Next, Routing!Interrupt
<1>13. QED
  BY <1>1, <1>2, <1>3, <1>4, <1>5, <1>7, <1>8, <1>9, <1>10, <1>11, <1>12
  DEF Next, Call, CallUnknown, CallRejected, CallUninspectable

(* The bucket runner keeps every promise of GraphRouting.                  *)
THEOREM Implements == Spec => ImplementsRouting
<1>1. Init => Routing!Init
  BY DEF Init, Routing!Init, Routing!NoGraph, CleanSlots, NoCapture, Captured,
         Idle, Outcome
<1>2. QED
  BY <1>1, RoutingStep, Inductive, PTL DEF Spec, ImplementsRouting, Routing!Spec
=============================================================================
