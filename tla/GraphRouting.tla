----------------------------- MODULE GraphRouting -----------------------------
(***************************************************************************)
(* What a graph runner promises its caller, whatever it keeps to do so.    *)
(* Both runners of npu/graph.py implement it: GraphBuckets.tla with a slot *)
(* per bucket, StaticGraph.tla with one.                                   *)
(*                                                                         *)
(*  - A call that returns ran the model eagerly once or replayed a graph,  *)
(*    and the graph was built in the world the call was made in.           *)
(*  - A strict runner never runs the model eagerly.                        *)
(*  - After a failed capture or replay the runner serves no call again.    *)
(***************************************************************************)
CONSTANTS Buckets, Strict

VARIABLES
  world,      \* what a replay depends on, owned by the caller
  graphs,     \* for each bucket, <<the world its graph was built in>> or <<>>
  poisoned,
  last        \* the outcome of the last step, if it was a call

vars == <<world, graphs, poisoned, last>>

NoGraph == <<>>

Init ==
  /\ graphs = [b \in Buckets |-> NoGraph]
  /\ poisoned = FALSE
  /\ last = [kind |-> "idle"]

(* Graphs may be given up at any time, those in B aside.                   *)
DropGraphs(B) ==
  \A b \in Buckets \ B : graphs'[b] \in {graphs[b], NoGraph}

(* The caller changes the world, or resets the runner.                     *)
CallerStep ==
  /\ last' = [kind |-> "idle"]
  /\ DropGraphs({})
  /\ UNCHANGED poisoned

(* Eager execution, or its refusal; the model may update its own state.    *)
RunEagerly ==
  /\ ~poisoned /\ ~Strict
  /\ last' = [kind |-> "eager"]
  /\ UNCHANGED <<graphs, poisoned>>

Reject ==
  /\ ~poisoned /\ Strict
  /\ last' = [kind |-> "rejected"]
  /\ UNCHANGED <<world, graphs, poisoned>>

(* The graph used is this world's; it may have been built for this call.   *)
UseGraph(b) ==
  /\ ~poisoned
  /\ DropGraphs({b})
  /\ graphs'[b] = <<world>>
  /\ world' = world

Replay(b) ==
  /\ UseGraph(b)
  /\ last' = [kind |-> "graph", bucket |-> b]
  /\ UNCHANGED poisoned

(* An error before the launch leaves the caller's state alone.             *)
FailBeforeLaunch ==
  /\ ~poisoned
  /\ DropGraphs({})
  /\ last' = [kind |-> "error"]
  /\ UNCHANGED <<world, poisoned>>

FailCapture ==
  /\ ~poisoned
  /\ DropGraphs({})
  /\ poisoned' = TRUE
  /\ last' = [kind |-> "captureFailed"]

FailReplay(b) ==
  /\ UseGraph(b)
  /\ poisoned' = TRUE
  /\ last' = [kind |-> "replayFailed"]

(* An interrupt inside the launch leaves the world to the caller.          *)
Interrupt ==
  /\ ~poisoned
  /\ \/ DropGraphs({})
     \/ \E b \in Buckets : UseGraph(b)
  /\ last' = [kind |-> "interrupted"]
  /\ UNCHANGED poisoned

RefuseForever ==
  /\ poisoned
  /\ last' = [kind |-> "poisoned"]
  /\ UNCHANGED <<world, graphs, poisoned>>

Next ==
  \/ CallerStep
  \/ RunEagerly
  \/ Reject
  \/ FailBeforeLaunch
  \/ FailCapture
  \/ Interrupt
  \/ RefuseForever
  \/ \E b \in Buckets : Replay(b) \/ FailReplay(b)

Spec == Init /\ [][Next]_vars
=============================================================================
