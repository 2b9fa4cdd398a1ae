----------------------------- MODULE StaticGraph ------------------------------
(***************************************************************************)
(* StaticGraphRunner of src/spikingjelly_npu/npu/graph.py: one graph for   *)
(* one batch size.  Unlike the bucket runner it declares no signature; the *)
(* first capture binds one, and what the graph was captured under is kept  *)
(* with it and compared field by field.                                    *)
(***************************************************************************)
EXTENDS GraphModel

CONSTANTS Inputs,        \* signatures of full-batch inputs
          Interrupts     \* see GraphBuckets

ASSUME StaticAssumption == Interrupts \in BOOLEAN

VARIABLES
  slot,         \* _graphed with the _captured_* fields and _capture_signature
  poisoned,     \* self._capture_state_error is not None
  route,        \* the backend of self.last_route
  last          \* auxiliary: the outcome of the last step, if it was a call

runnerVars == <<slot, poisoned, route>>
vars == <<modelVars, runnerVars, last>>

(* The stamp and the unit are auxiliary, as in GraphBuckets.               *)
NoCapture == [graphed |-> FALSE]
Captured == slot.graphed

Outcome(kind) == [kind |-> kind]
Idle == Outcome("idle")
Outcomes == {"idle", "eager", "rejected", "error",
             "captureFailed", "replayFailed", "interrupted", "poisoned"}
TheBucket == 0
GraphOf(i) == [kind |-> "graph", bucket |-> TheBucket, input |-> i]

Init ==
  /\ ModelInit
  /\ slot = NoCapture
  /\ poisoned = FALSE
  /\ route = "eager"
  /\ last = Idle

CallerChangesModel ==
  /\ ModelChange
  /\ last' = Idle
  /\ UNCHANGED runnerVars

ResetCapture ==
  /\ slot' = NoCapture
  /\ last' = Idle
  /\ UNCHANGED <<modelVars, poisoned, route>>

-----------------------------------------------------------------------------
(* __call__, one action per outcome.                                       *)

CallPoisoned ==
  /\ poisoned
  /\ last' = Outcome("poisoned")
  /\ UNCHANGED <<modelVars, runnerVars>>

RouteFallbackOrRaise ==
  /\ ~poisoned
  /\ route' = "eager"
  /\ IF Strict
     THEN last' = Outcome("rejected") /\ UNCHANGED modelVars
     ELSE last' = Outcome("eager") /\ RunModel
  /\ UNCHANGED <<slot, poisoned>>

(* Extra arguments or another batch size.                                  *)
CallUnsupported == RouteFallbackOrRaise

CallRejected == FallbackRequired /\ RouteFallbackOrRaise

(* The physical format of the input, a parameter or a buffer cannot be     *)
(* read: _capture_preflight fails and the graph is kept.                   *)
CallUninspectable == ~FallbackRequired /\ RouteFallbackOrRaise

Admitted == ~poisoned /\ ~FallbackRequired

(* Fault: the structure of the model is not compared.                      *)
MutModesOnly ==
  Captured /\ (\/ slot.state.modes # training
               \/ slot.state.det # DeterministicCaptureState)

StateChanged == Captured /\ slot.state # ExecutionState

(* A changed execution state drops the graph before the input is compared, *)
(* so that the next capture binds this call's input.                       *)
MustCapture == ~Captured \/ StateChanged

(* Fault: a call with another input drops the graph.                       *)
MutDropsGraph(i) ==
  /\ Admitted /\ ~MustCapture
  /\ slot.input # i
  /\ slot' = NoCapture
  /\ last' = Outcome("eager")
  /\ RunModel
  /\ route' = "eager"
  /\ UNCHANGED poisoned

CallMismatched(i) ==
  /\ Admitted /\ ~MustCapture
  /\ slot.input # i
  /\ RouteFallbackOrRaise

CaptureUnavailable ==
  /\ Admitted /\ MustCapture
  /\ slot' = NoCapture
  /\ last' = Outcome("error")
  /\ UNCHANGED <<modelVars, poisoned, route>>

CaptureFails ==
  /\ Admitted /\ MustCapture
  /\ slot' = NoCapture
  /\ poisoned' = TRUE
  /\ last' = Outcome("captureFailed")
  /\ CaptureLeavesTraces
  /\ UNCHANGED route

CaptureInterrupted ==
  /\ Interrupts
  /\ Admitted /\ MustCapture
  /\ slot' = NoCapture
  /\ last' = Outcome("interrupted")
  /\ CaptureLeavesTraces
  /\ UNCHANGED <<poisoned, route>>

(* The graph the replay uses: the present one, or one captured now under   *)
(* the preflight's modes and input and the finalized structure.            *)
UseSlot(i) ==
  /\ Admitted
  /\ \/ /\ ~MustCapture /\ slot.input = i
        /\ UNCHANGED <<slot, modelVars>>
     \/ /\ MustCapture
        /\ CaptureRestores
        /\ slot' = [graphed |-> TRUE, state |-> ExecutionState', input |-> i,
                    stamp |-> World, unit |-> unit]
  /\ route' = "npugraph"

Replay(i) ==
  /\ UseSlot(i)
  /\ last' = GraphOf(i)
  /\ UNCHANGED poisoned

(* Fault: a failed replay is raised, the runner lives on.                  *)
MutForgivingReplay(i) ==
  /\ UseSlot(i)
  /\ last' = Outcome("replayFailed")
  /\ UNCHANGED poisoned

ReplayFails(i) ==
  /\ UseSlot(i)
  /\ poisoned' = TRUE
  /\ last' = Outcome("replayFailed")

ReplayInterrupted(i) ==
  /\ Interrupts
  /\ UseSlot(i)
  /\ last' = Outcome("interrupted")
  /\ UNCHANGED poisoned

Next ==
  \/ CallerChangesModel
  \/ ResetCapture
  \/ CallPoisoned
  \/ CallUnsupported
  \/ CallRejected
  \/ CallUninspectable
  \/ CaptureUnavailable
  \/ CaptureFails
  \/ CaptureInterrupted
  \/ \E i \in Inputs :
       CallMismatched(i) \/ Replay(i) \/ ReplayFails(i) \/ ReplayInterrupted(i)

Spec == Init /\ [][Next]_vars

-----------------------------------------------------------------------------
(* Properties.                                                             *)

(* A replay that returned used a graph built in the present world and for  *)
(* the input signature of the call (lines 1419-1433).                      *)
ReplayFresh ==
  last.kind = "graph" =>
    Captured /\ slot.stamp = World /\ slot.input = last.input

(* The graph is given up only by reset_capture() or when its world is      *)
(* gone; a call with another input never costs it.  Nor does a capture     *)
(* that fails or is interrupted: unlike the buckets', it finds no other    *)
(* graph to cost (lines 1405-1417).                                        *)
CaptureKept ==
  [][Captured /\ slot' # slot =>
       slot.stamp # World \/ slot.unit # unit \/ (last' = Idle /\ slot' = NoCapture)]_vars

(* The facade keeps the promises of GraphRouting with one bucket.          *)
Routing == INSTANCE GraphRouting WITH
  Buckets <- {TheBucket},
  world   <- World,
  graphs  <- [b \in {TheBucket} |-> IF Captured THEN <<slot.stamp>> ELSE <<>>],
  last    <- IF last.kind = "graph" THEN [kind |-> "graph", bucket |-> TheBucket]
             ELSE last

ImplementsRouting == Routing!Spec
=============================================================================
