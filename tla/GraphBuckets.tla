----------------------------- MODULE GraphBuckets -----------------------------
(***************************************************************************)
(* GraphBucketRunner of src/spikingjelly_npu/npu/graph.py: a bounded       *)
(* allowlist of exact call signatures, at most one current capture per     *)
(* declared bucket, and a poison that outlives every later call.           *)
(*                                                                         *)
(* The runner is called from one thread, so an action is a whole call with *)
(* one of its outcomes; the caller changes the model between calls.  The   *)
(* capture inside a call is the transaction of GraphCapture.tla; here it   *)
(* has the outcomes that module establishes.                               *)
(***************************************************************************)
EXTENDS GraphModel

CONSTANTS Buckets,       \* the declared buckets, by index
          Interrupts     \* a launch may be cut by an exception that is not an
                         \* Exception (KeyboardInterrupt, SystemExit)

ASSUME BucketsAssumption == Interrupts \in BOOLEAN

VARIABLES
  captures,     \* self._captures
  tracked,      \* self._tracked_execution_state
  poisoned,     \* self._capture_state_error is not None
  route,        \* the backend of self.last_route
  last          \* auxiliary: the outcome of the last step, if it was a call

runnerVars == <<captures, tracked, poisoned, route>>
vars == <<modelVars, runnerVars, last>>

(* A slot of captures.  The stamp and the unit are auxiliary: the world    *)
(* and the submodule object the graph was built from.                      *)
NoCapture == [graphed |-> FALSE]
Capture(w, u) == [graphed |-> TRUE, stamp |-> w, unit |-> u]
Captured(b) == captures[b].graphed

NotTracked == [tracked |-> FALSE]
Tracked(e) == [tracked |-> TRUE, state |-> e]

Outcome(kind) == [kind |-> kind]
GraphOf(b) == [kind |-> "graph", bucket |-> b]
Idle == Outcome("idle")
Outcomes == {"idle", "eager", "rejected", "error",
             "captureFailed", "replayFailed", "interrupted", "poisoned"}

CleanSlots == [b \in Buckets |-> NoCapture]

Init ==
  /\ ModelInit
  /\ captures = CleanSlots
  /\ tracked = NotTracked
  /\ poisoned = FALSE
  /\ route = "eager"
  /\ last = Idle

-----------------------------------------------------------------------------
(* The caller between calls.                                               *)

CallerChangesModel ==
  /\ ModelChange
  /\ last' = Idle
  /\ UNCHANGED runnerVars

(* Fault: a reset revives a poisoned runner.                               *)
MutReviving ==
  /\ captures' = CleanSlots
  /\ tracked' = NotTracked
  /\ poisoned' = FALSE
  /\ last' = Idle
  /\ UNCHANGED <<modelVars, route>>

ResetCapture ==
  /\ captures' = CleanSlots
  /\ tracked' = NotTracked
  /\ last' = Idle
  /\ UNCHANGED <<modelVars, poisoned, route>>

-----------------------------------------------------------------------------
(* __call__, one action per outcome.                                       *)

CallPoisoned ==
  /\ poisoned
  /\ last' = Outcome("poisoned")
  /\ UNCHANGED <<modelVars, runnerVars>>

(* _route_fallback_or_raise and the eager call after it.                   *)
RouteFallbackOrRaise ==
  /\ route' = "eager"
  /\ IF Strict
     THEN last' = Outcome("rejected") /\ UNCHANGED modelVars
     ELSE last' = Outcome("eager") /\ RunModel
  /\ UNCHANGED <<captures, tracked, poisoned>>

(* The call has no signature, or one outside the allowlist, or the input's *)
(* physical format cannot be read.                                         *)
CallUnknown == ~poisoned /\ RouteFallbackOrRaise

CallRejected(b) == ~poisoned /\ FallbackRequired /\ RouteFallbackOrRaise

(* The physical format of a parameter or buffer cannot be read.            *)
CallUninspectable(b) == ~poisoned /\ ~FallbackRequired /\ RouteFallbackOrRaise

(* Past the rejections: the captures are dropped when the execution state  *)
(* is not the tracked one.                                                 *)
Admitted == ~poisoned /\ ~FallbackRequired

(* Fault: a changed execution state drops nothing.                         *)
MutStaleCaptures == captures

CurrentCaptures ==
  IF tracked = Tracked(ExecutionState) THEN captures ELSE CleanSlots

MustCapture(b) == ~CurrentCaptures[b].graphed

(* _make_graphed_callable gives up before the launch: the API is missing   *)
(* or a runtime memory cannot be snapshotted.  The error goes to the       *)
(* caller as it is.                                                        *)
CaptureUnavailable(b) ==
  /\ Admitted /\ MustCapture(b)
  /\ captures' = CurrentCaptures
  /\ tracked' = Tracked(ExecutionState)
  /\ last' = Outcome("error")
  /\ UNCHANGED <<modelVars, poisoned, route>>

(* The launch or its cleanup fails; parameters and buffers are what the    *)
(* failed cleanup left.                                                    *)
CaptureFails(b) ==
  /\ Admitted /\ MustCapture(b)
  /\ captures' = CurrentCaptures
  /\ tracked' = Tracked(ExecutionState)
  /\ poisoned' = TRUE
  /\ last' = Outcome("captureFailed")
  /\ CaptureLeavesTraces
  /\ UNCHANGED route

(* `except Exception` does not see it: the cleanup runs, its failures are  *)
(* forgotten, nothing is poisoned, and the tracked state is the one from   *)
(* before the copies that the cleanup made.                                *)
CaptureInterrupted(b) ==
  /\ Interrupts
  /\ Admitted /\ MustCapture(b)
  /\ captures' = CurrentCaptures
  /\ tracked' = Tracked(ExecutionState)
  /\ last' = Outcome("interrupted")
  /\ CaptureLeavesTraces
  /\ UNCHANGED <<poisoned, route>>

(* Fault: the state before the capture stays the tracked one.              *)
MutTracksPreflight(b) ==
  \/ /\ ~MustCapture(b)
     /\ UNCHANGED <<captures, tracked, modelVars>>
  \/ /\ MustCapture(b)
     /\ CaptureRestores
     /\ captures' = [CurrentCaptures EXCEPT ![b] = Capture(World, unit)]
     /\ tracked' = Tracked(ExecutionState)

(* The capture the replay uses: the slot's, or a new one.  A new capture   *)
(* restores every buffer in place and records the versions this leaves.    *)
UseSlot(b) ==
  \/ /\ ~MustCapture(b)
     /\ UNCHANGED <<captures, tracked, modelVars>>
  \/ /\ MustCapture(b)
     /\ CaptureRestores
     /\ captures' = [CurrentCaptures EXCEPT ![b] = Capture(World, unit)]
     /\ tracked' = Tracked(ExecutionState')

Replay(b) ==
  /\ Admitted
  /\ UseSlot(b)
  /\ route' = "npugraph"
  /\ last' = GraphOf(b)
  /\ UNCHANGED poisoned

ReplayFails(b) ==
  /\ Admitted
  /\ UseSlot(b)
  /\ route' = "npugraph"
  /\ poisoned' = TRUE
  /\ last' = Outcome("replayFailed")

ReplayInterrupted(b) ==
  /\ Interrupts
  /\ Admitted
  /\ UseSlot(b)
  /\ route' = "npugraph"
  /\ last' = Outcome("interrupted")
  /\ UNCHANGED poisoned

Call(b) ==
  \/ CallRejected(b) \/ CallUninspectable(b)
  \/ CaptureUnavailable(b) \/ CaptureFails(b) \/ CaptureInterrupted(b)
  \/ Replay(b) \/ ReplayFails(b) \/ ReplayInterrupted(b)

Next ==
  \/ CallerChangesModel
  \/ ResetCapture
  \/ CallPoisoned
  \/ CallUnknown
  \/ \E b \in Buckets : Call(b)

Spec == Init /\ [][Next]_vars

-----------------------------------------------------------------------------
(* Properties.                                                             *)

(* Types of the runner's state and of the model's.                         *)
SlotType == {NoCapture} \cup
            [graphed : {TRUE}, stamp : Worlds, unit : 1..Len(LeafIds)]

TypeOK ==
  /\ ModelTypeOK
  /\ captures \in [Buckets -> SlotType]
  /\ tracked \in {NotTracked} \cup [tracked : {TRUE}, state : States]
  /\ poisoned \in BOOLEAN
  /\ route \in {"eager", "npugraph"}
  /\ last \in [kind : Outcomes] \cup [kind : {"graph"}, bucket : Buckets]

(* A replay that returned used a graph built in the present world: same    *)
(* training modes and determinism, same tensor objects at the same         *)
(* addresses, none of them updated since except by captures.  The runner   *)
(* compares one tracked state for all buckets, and every capture of        *)
(* another bucket moves the buffers' versions (lines 1198-1201, 1231).     *)
ReplayFresh ==
  last.kind = "graph" =>
    Captured(last.bucket) /\ captures[last.bucket].stamp = World

(* ... and from the submodule that is bound now.  The signature compares   *)
(* id(module) (line 515).                                                  *)
ReplayOnSameModule ==
  last.kind = "graph" => captures[last.bucket].unit = unit

(* A capture is given up only by reset_capture(), when its world is gone,  *)
(* or after a capture of another bucket was interrupted: its cleanup has   *)
(* put tensors back in place, which advances their versions, and only a    *)
(* capture that completes records them (lines 678-696, 929, 1231).  A      *)
(* completed one never costs another bucket its graph, nor does switching  *)
(* determinism in eval mode (line 491).                                    *)
CapturesKept ==
  [][\A b \in Buckets :
       Captured(b) /\ captures'[b] # captures[b] =>
         \/ captures[b].stamp # World
         \/ captures[b].unit # unit
         \/ tracked' = NotTracked
         \/ \E s \in Slots : bound[s] \in disturbed]_vars

(* No graph was ever built in a training mode the policy excludes, nor     *)
(* with random draws, whatever the caller switched afterwards.             *)
AdmissibleCaptures ==
  \A b \in Buckets : Captured(b) =>
    LET built == captures[b].stamp IN
    /\ \A s \in Slots : s = Lead => built.tensors[s].ptr \notin HostStorages
    /\ (\E m \in Modules : built.modes[m]) =>
         AllowTraining /\ (RequireDeterministic => built.det = {TRUE})
    /\ (\E m \in RngModules : built.modes[m]) => AllowUnsafeRng

(* Once a capture or a replay has failed after its launch no call runs the *)
(* model or a graph again, and reset_capture() does not change that        *)
(* (lines 1126, 1224, 1248).                                               *)
NothingRunsOncePoisoned ==
  [][/\ last.kind \in {"captureFailed", "replayFailed"} => poisoned
     /\ poisoned => poisoned' /\ last'.kind \in {"poisoned", "idle"}]_vars

(* The runner keeps the promises of GraphRouting: fresh replays only, no   *)
(* eager run under strict, nothing after a failed launch.                  *)
Routing == INSTANCE GraphRouting WITH
  world  <- World,
  graphs <- [b \in Buckets |-> IF Captured(b) THEN <<captures[b].stamp>> ELSE <<>>]

ImplementsRouting == Routing!Spec
=============================================================================
