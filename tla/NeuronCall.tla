----------------------------- MODULE NeuronCall -----------------------------
(***************************************************************************)
(* The stateful spiking neurons: IFNode, LIFNode, KLIFNode and             *)
(* ParametricLIFNode of src/spikingjelly_npu/activation_based/neuron.py,   *)
(* their memories (activation_based/base.py) and the routing of one        *)
(* multi-step call to the native adapter (activation_based/_aspy.py).      *)
(*                                                                         *)
(* A neuron owns two memories, the membrane potential v and, when          *)
(* store_v_seq is set, the sequence v_seq of the potentials of its last    *)
(* multi-step call.  Both are Python references to tensors: heap holds     *)
(* what each tensor contains, so that a write in place (a reset, a native  *)
(* kernel scribbling on its input) is seen through every reference to it.  *)
(*                                                                         *)
(* A potential is abstracted to the number of inputs integrated since the  *)
(* last reset: that is what tells apart an input that was fed once, twice  *)
(* or not at all.  A call to the native backend is taken apart where an    *)
(* exception can leave the function; a step of the PyTorch implementation  *)
(* is one action.                                                          *)
(***************************************************************************)
EXTENDS Integers

CONSTANTS
  StepCells,        \* the tensors of one time step that can be alive at once
  SequenceCells,    \* the tensors of a sequence that can be alive at once
  Shapes,           \* the shapes of one time step
  Lengths,          \* the lengths of an input sequence
  Kinds,            \* the neuron classes considered
  MaxFed,           \* bound: inputs integrated between two resets
  NoShape,          \* the shape of an unallocated tensor
  NoTensor          \* a memory that holds no tensor: 0.0 or None

ASSUME NeuronCallAssumption ==
  /\ Lengths \subseteq Nat \ {0}
  /\ Kinds \subseteq {"if", "lif", "klif", "plif"}
  /\ MaxFed \in Nat
  /\ NoShape \notin Shapes
  /\ StepCells \cap SequenceCells = {}

\* Enough tensors can be alive for every allocation to find a free one.
ASSUME EnoughTensors ==
  /\ \E a, b, c, d \in StepCells :
       a # b /\ a # c /\ a # d /\ b # c /\ b # d /\ c # d
  /\ \E a, b, c \in SequenceCells : a # b /\ a # c /\ b # c

VARIABLES
  kind,       \* the class of the neuron
  master,     \* whether the learnable scalar k or w is FP32
  v, vSeq,    \* the two memories
  heap,       \* what every tensor contains
  pc,         \* where a call stands
  call,       \* the input and the local variables of the call, the attributes
              \* backend_strict and store_v_seq it runs under
  route,      \* last_backend_route
  outcome,    \* how the last call ended
  ran,        \* what the last call executed
  before,     \* the request of the last call and what it found
  saved,      \* the memories when it began, until it runs eagerly or commits
  seen        \* v_seq as the caller last read it

vars == <<kind, master, v, vSeq, heap, pc, call, route, outcome, ran, before,
          saved, seen>>
neuron == <<kind, master>>

(***************************************************************************)
(* Tensors.                                                                *)
(***************************************************************************)
Cells == StepCells \cup SequenceCells

Free == [shape |-> NoShape, fed |-> 0, rows |-> 0]
Potential(s, n) == [shape |-> s, fed |-> n, rows |-> 0]
Sequence(s, n, t) == [shape |-> s, fed |-> n, rows |-> t]

\* grad: the tensor belongs to an autograd graph.  Nothing depends on it for
\* v_seq, whose reset value is None: it is left out there.
Ref(c, g) == [cell |-> c, grad |-> g]
Refs == [cell : Cells, grad : BOOLEAN]
Memory == Refs \cup {NoTensor}

ASSUME NoTensorIsNone == NoTensor \notin Refs

\* A free tensor of heap h, for one time step or for a sequence of them.
Fresh(h) == CHOOSE c \in StepCells : h[c] = Free
FreshSequence(h) == CHOOSE c \in SequenceCells : h[c] = Free

\* Heap h without the tensors that no reference of rs reaches.
Collect(h, rs) ==
  [c \in Cells |-> IF \E r \in rs \ {NoTensor} : r.cell = c THEN h[c] ELSE Free]

Contents(h, r) == IF r = NoTensor THEN Free ELSE h[r.cell]

\* Inputs a potential of shape s carries into a call; another shape is dropped.
Carried(h, r, s) == IF Contents(h, r).shape = s THEN h[r.cell].fed ELSE 0

NoCall == [steps |-> 0, shape |-> NoShape, grad |-> FALSE, t |-> 0,
           strict |-> FALSE, store |-> FALSE,
           v |-> NoTensor, vSeq |-> NoTensor,
           init |-> NoTensor, final |-> NoTensor, seq |-> NoTensor]
Request(n, s, g, x, w) ==
  [NoCall EXCEPT !.steps = n, !.shape = s, !.grad = g, !.strict = x, !.store = w]
Requests ==
  {Request(n, s, g, x, w) : n \in Lengths, s \in Shapes, g, x, w \in BOOLEAN}
Nothing == [native |-> FALSE, eager |-> 0]
NotCalled == [carried |-> 0, steps |-> 0, shape |-> NoShape, multi |-> FALSE,
              strict |-> FALSE, store |-> FALSE]
NotSaved == [v |-> NoTensor, vSeq |-> NoTensor,
             potential |-> Free, voltages |-> Free]

\* multi: a multi-step call; strict: backend="aspy" and backend_strict.
Started(s, n, multi, strict, store) ==
  [carried |-> Carried(heap, v, s), steps |-> n, shape |-> s, multi |-> multi,
   strict |-> strict, store |-> store]

Memories == [v |-> v, vSeq |-> vSeq, potential |-> Contents(heap, v),
             voltages |-> Contents(heap, vSeq)]

Init ==
  /\ kind \in Kinds
  /\ master = TRUE
  /\ v = NoTensor
  /\ vSeq = NoTensor
  /\ heap = [c \in Cells |-> Free]
  /\ pc = "idle"
  /\ call = NoCall
  /\ route = "pending"
  /\ outcome = "none"
  /\ ran = Nothing
  /\ before = NotCalled
  /\ saved = NotSaved
  /\ seen = [ref |-> NoTensor, value |-> Free]

(***************************************************************************)
(* The caller between two calls.  The attributes backend, backend_strict   *)
(* and store_v_seq may be assigned at any time: each operation that reads  *)
(* them picks their values.                                                *)
(***************************************************************************)
Idle ==
  /\ pc = "idle"
  /\ outcome' = "none"
  /\ ran' = Nothing
  /\ before' = NotCalled
  /\ saved' = NotSaved
  /\ UNCHANGED <<pc, call, kind>>

\* module.half() or .float(): k or w stays FP32 only under the aspy backend, and
\* memories of another precision become new tensors of the same value.
Convert ==
  /\ Idle
  /\ \E full, aspy \in BOOLEAN : master' = (full \/ aspy)
  /\ LET c1 == Fresh(heap)
         h1 == IF v = NoTensor THEN heap ELSE [heap EXCEPT ![c1] = heap[v.cell]]
         c2 == FreshSequence(h1)
         h2 == IF vSeq = NoTensor THEN h1
               ELSE [h1 EXCEPT ![c2] = heap[vSeq.cell]]
     IN  \/ /\ v' = IF v = NoTensor THEN v ELSE Ref(c1, v.grad)
            /\ vSeq' = IF vSeq = NoTensor THEN vSeq ELSE Ref(c2, FALSE)
            /\ heap' = Collect(h2, {v', vSeq', seen.ref})
         \/ UNCHANGED <<v, vSeq, heap>>
  /\ UNCHANGED <<route, seen>>

\* A mutant: v_seq is filled in place like v.
MutFillsVoltages ==
  /\ Idle
  /\ heap' = [c \in Cells |->
                IF \E r \in {v, vSeq} \ {NoTensor} : r.cell = c
                  THEN [heap[c] EXCEPT !.fed = 0] ELSE heap[c]]
  /\ UNCHANGED <<master, v, vSeq, route, seen>>

\* Fill v in place, or replace it when it belongs to an autograd graph; the
\* reset value of v_seq is None, whatever it holds.
Reset ==
  /\ Idle
  /\ vSeq' = NoTensor
  /\ IF v = NoTensor
       THEN /\ v' = v
            /\ heap' = Collect(heap, {seen.ref})
       ELSE LET c == IF v.grad THEN Fresh(heap) ELSE v.cell
            IN  /\ v' = Ref(c, FALSE)
                /\ heap' = Collect([heap EXCEPT ![c] =
                                      Potential(heap[v.cell].shape, 0)],
                                   {v', seen.ref})
  /\ UNCHANGED <<master, route, seen>>

\* The detached tensor shares the storage of the old one.
Detach ==
  /\ Idle
  /\ v' = IF v = NoTensor THEN v ELSE Ref(v.cell, FALSE)
  /\ UNCHANGED <<master, vSeq, heap, route, seen>>

\* The caller keeps the voltages of the last call.
ReadVoltages ==
  /\ Idle
  /\ vSeq # NoTensor
  /\ seen' = [ref |-> vSeq, value |-> heap[vSeq.cell]]
  /\ heap' = Collect(heap, {v, vSeq})
  /\ UNCHANGED <<master, v, vSeq, route>>

(***************************************************************************)
(* Pieces of a forward.                                                    *)
(***************************************************************************)
\* v_float_to_tensor: create the potential, drop one of another shape, or
\* convert its precision into a new tensor.
Materialized(h, r, s) ==
  LET c == Fresh(h) IN
  IF Contents(h, r).shape = s
    THEN {[v |-> r, heap |-> h],
          [v |-> Ref(c, r.grad), heap |-> [h EXCEPT ![c] = h[r.cell]]]}
    ELSE {[v |-> Ref(c, FALSE), heap |-> [h EXCEPT ![c] = Potential(s, 0)]]}

\* Charge, fire and reset: v is rebound to a new tensor.
Stepped(h, r, g) ==
  LET c == Fresh(h) IN
  [v |-> Ref(c, g),
   heap |-> [h EXCEPT ![c] = Potential(h[r.cell].shape, h[r.cell].fed + 1)]]

\* The tensors a running call still refers to.
Locals(k) == {k.v, k.vSeq, k.init, k.final, k.seq, seen.ref}

Finish(o) == pc' = "idle" /\ outcome' = o /\ call' = NoCall

\* The function is left with the memories n and w.
Leave(o, n, w, h) ==
  /\ Finish(o)
  /\ v' = n
  /\ vSeq' = w
  /\ heap' = Collect(h, {n, w, seen.ref})

(***************************************************************************)
(* A single step runs on PyTorch; KLIFNode alone refuses to under strict.  *)
(***************************************************************************)
SingleStep ==
  \E s \in Shapes, g, aspy, strict \in BOOLEAN :
    /\ pc = "idle"
    /\ Carried(heap, v, s) < MaxFed
    /\ before' = Started(s, 1, FALSE, strict /\ aspy, FALSE)
    /\ IF kind = "klif" /\ aspy /\ strict
         THEN /\ Leave("raised", v, vSeq, heap)
              /\ saved' = Memories
              /\ ran' = Nothing
              /\ UNCHANGED route
         ELSE /\ \E m \in Materialized(heap, v, s) :
                   LET n == Stepped(m.heap, m.v, g) IN
                   \/ /\ Leave("returned", n.v, vSeq, n.heap)
                      /\ ran' = [native |-> FALSE, eager |-> 1]
                   \/ \E x \in {m, n} :
                        /\ Leave("raised", x.v, vSeq, x.heap)
                        /\ ran' = [native |-> FALSE, eager |-> 1]
              /\ saved' = NotSaved
              /\ route' = IF aspy THEN "torch" ELSE route
    /\ UNCHANGED <<neuron, seen>>

(***************************************************************************)
(* A multi-step call under the torch backend and the eager loop.           *)
(***************************************************************************)
\* The attributes k and the input: the part of call the caller decides.
Begin(k, strict) ==
  /\ pc = "idle"
  /\ Carried(heap, v, k.shape) + k.steps <= MaxFed
  /\ before' = Started(k.shape, k.steps, TRUE, strict, k.store)
  /\ outcome' = "none"
  /\ ran' = Nothing
  /\ UNCHANGED <<neuron, v, vSeq, heap, seen>>

MultiStepTorch ==
  \E k \in Requests :
    /\ ~k.strict
    /\ Begin(k, FALSE)
    /\ call' = k
    /\ route' = "torch"
    /\ pc' = "eager"
    /\ saved' = NotSaved

EagerStep ==
  /\ pc = "eager"
  /\ call.t < call.steps
  /\ \E m \in Materialized(heap, v, call.shape) :
       LET n == Stepped(m.heap, m.v, call.grad) IN
       /\ v' = n.v
       /\ heap' = Collect(n.heap, {n.v, vSeq} \cup Locals(call))
  /\ call' = [call EXCEPT !.t = @ + 1]
  /\ ran' = [ran EXCEPT !.eager = @ + 1]
  /\ UNCHANGED <<neuron, vSeq, pc, route, outcome, before, saved, seen>>

\* The voltages are stacked once all the steps are done.
EagerReturns ==
  /\ pc = "eager"
  /\ call.t = call.steps
  /\ LET c == FreshSequence(heap) IN
     IF call.store
       THEN Leave("returned", v, Ref(c, FALSE),
                  [heap EXCEPT ![c] = Sequence(call.shape, heap[v.cell].fed,
                                               call.steps)])
       ELSE Leave("returned", v, vSeq, heap)
  /\ UNCHANGED <<neuron, route, ran, before, saved, seen>>

\* A step that raises leaves the potential before it or charged already.
EagerRaises ==
  /\ pc = "eager"
  /\ call.t < call.steps
  /\ \E m \in Materialized(heap, v, call.shape) :
       \E x \in {m, Stepped(m.heap, m.v, call.grad)} :
         Leave("raised", x.v, vSeq, x.heap)
  /\ ran' = [ran EXCEPT !.eager = @ + 1]
  /\ UNCHANGED <<neuron, route, before, saved, seen>>

(***************************************************************************)
(* A multi-step call under the aspy backend.                               *)
(***************************************************************************)
\* _aspy_runtime_state_snapshot keeps references, not copies.
MultiStepAsPy ==
  \E k \in Requests :
    /\ Begin(k, k.strict)
    /\ call' = [k EXCEPT !.v = v,
                         !.vSeq = IF k.store THEN vSeq ELSE NoTensor]
    /\ pc' = "prepare"
    /\ saved' = Memories
    /\ UNCHANGED route

\* KLIFNode and ParametricLIFNode require an FP32 parameter first.
RequireMasterParameter ==
  /\ pc = "prepare"
  /\ kind \in {"klif", "plif"} /\ ~master
  /\ Leave("raised", v, vSeq, heap)
  /\ UNCHANGED <<neuron, route, ran, before, saved, seen>>

Materialize ==
  /\ pc = "prepare"
  /\ ~(kind \in {"klif", "plif"} /\ ~master)
  /\ \E m \in Materialized(heap, v, call.shape) :
       /\ v' = m.v
       /\ heap' = m.heap
  /\ pc' = "clone"
  /\ UNCHANGED <<neuron, vSeq, call, route, outcome, ran, before, saved, seen>>

\* A mutant: the kernel is given the potential itself.
MutShared == [init |-> v, heap |-> heap]

\* What the kernel is given: a clone, isolated from the committed potential.
NativeInitialState ==
  LET c == Fresh(heap) IN
  [init |-> Ref(c, v.grad), heap |-> [heap EXCEPT ![c] = heap[v.cell]]]

Clone ==
  /\ pc = "clone"
  /\ call' = [call EXCEPT !.init = NativeInitialState.init]
  /\ heap' = NativeInitialState.heap
  /\ pc' = "route"
  /\ UNCHANGED <<neuron, v, vSeq, route, outcome, ran, before, saved, seen>>

\* A mutant: a failed launch is answered by the eager implementation.
MutRetriesEagerly ==
  /\ pc \in {"route", "validate"}
  /\ ~call.strict
  /\ route' = "torch"
  /\ pc' = "eager"
  /\ saved' = NotSaved
  /\ UNCHANGED <<neuron, v, vSeq, heap, call, outcome, ran, before, seen>>

\* A mutant: the fallback is not reported.
MutSilent ==
  /\ pc = "route"
  /\ ~call.strict
  /\ pc' = "eager"
  /\ saved' = NotSaved
  /\ UNCHANGED <<neuron, v, vSeq, heap, call, route, outcome, ran, before, seen>>

\* Unsupported request, missing extension or capability: a fallback is
\* allowed before the launch and only when the caller is not strict.  The
\* snapshot and the clone are not used any more.
FallBack ==
  /\ pc = "route"
  /\ ~call.strict
  /\ route' = "torch"
  /\ pc' = "eager"
  /\ saved' = NotSaved
  /\ call' = [call EXCEPT !.v = NoTensor, !.vSeq = NoTensor, !.init = NoTensor]
  /\ heap' = Collect(heap, {v, vSeq} \cup Locals(call'))
  /\ UNCHANGED <<neuron, v, vSeq, outcome, ran, before, seen>>

\* The kernel integrates the whole sequence; it may scribble on its input.
Launch ==
  /\ pc = "route"
  /\ LET s == call.shape
         n == heap[call.init.cell].fed + call.steps
         c == Fresh(heap)
         h1 == [heap EXCEPT ![c] = Potential(s, n)]
         d == FreshSequence(h1)
         h2 == IF call.store
                 THEN [h1 EXCEPT ![d] = Sequence(s, n, call.steps)] ELSE h1
     IN  /\ call' = [call EXCEPT !.final = Ref(c, call.grad),
                                 !.seq = IF call.store THEN Ref(d, FALSE)
                                         ELSE NoTensor]
         /\ heap' \in {h2, [h2 EXCEPT ![call.init.cell] =
                                 Potential(s, MaxFed + 1)]}
  /\ ran' = [ran EXCEPT !.native = TRUE]
  /\ pc' = "validate"
  /\ UNCHANGED <<neuron, v, vSeq, route, outcome, before, saved, seen>>

\* A mutant: the voltages of the kernel are not committed.
MutForgetsVoltages ==
  /\ pc = "validate"
  /\ Leave("returned", call.final, vSeq, heap)
  /\ route' = "native"
  /\ saved' = NotSaved
  /\ UNCHANGED <<neuron, ran, before, seen>>

\* Only a validated result becomes the state of the neuron.
Commit ==
  /\ pc = "validate"
  /\ Leave("returned", call.final, IF call.store THEN call.seq ELSE vSeq,
           heap)
  /\ route' = "native"
  /\ saved' = NotSaved
  /\ UNCHANGED <<neuron, ran, before, seen>>

\* A strict rejection, a failed launch or a malformed result: the snapshot is
\* put back and the exception propagates; the route is not updated.
RaiseAndRestore ==
  /\ pc \in {"route", "validate"}
  /\ Leave("raised", call.v, IF call.store THEN call.vSeq ELSE vSeq, heap)
  /\ UNCHANGED <<neuron, route, ran, before, saved, seen>>

\* What no handler restores: the clone, k.to or w.sigmoid running out of
\* memory before the try, and an interrupt, which is no Exception, inside it.
RaiseUnhandled ==
  /\ pc \in {"prepare", "clone", "route", "validate"}
  /\ Leave("escaped", v, vSeq, heap)
  /\ UNCHANGED <<neuron, route, ran, before, saved, seen>>

Next ==
  \/ Convert \/ Reset \/ Detach \/ ReadVoltages
  \/ SingleStep
  \/ MultiStepTorch \/ EagerStep \/ EagerReturns \/ EagerRaises
  \/ MultiStepAsPy \/ RequireMasterParameter \/ Materialize \/ Clone
  \/ FallBack \/ Launch \/ Commit \/ RaiseAndRestore \/ RaiseUnhandled

Spec == Init /\ [][Next]_vars

(***************************************************************************)
(* Properties.                                                             *)
(***************************************************************************)
Tensor == [shape : Shapes \cup {NoShape}, fed : 0 .. MaxFed + 1,
           rows : {0} \cup Lengths]

\* The memories are allocated tensors or no tensor, whatever was called, reset,
\* converted or interrupted, and a local reference never outlives its tensor.
TypeOK ==
  /\ kind \in Kinds
  /\ master \in BOOLEAN
  /\ heap \in [Cells -> Tensor]
  /\ \A r \in {v, vSeq} \cup Locals(call) :
       r \in Memory /\ (r # NoTensor => heap[r.cell] # Free)
  /\ pc \in {"idle", "prepare", "clone", "route", "validate", "eager"}
  /\ call.t \in 0 .. call.steps
  /\ route \in {"pending", "torch", "native"}
  /\ outcome \in {"none", "returned", "raised", "escaped"}
  /\ ran \in [native : BOOLEAN, eager : Nat]

\* A forward that returned integrated every input of its sequence exactly once,
\* on top of the potential that was there, whichever implementation ran and
\* whatever the native kernel did to its input; and the voltages it stored are
\* those of this call.
InputsFedOnce ==
  outcome = "returned" =>
    LET n == before.carried + before.steps IN
    /\ Contents(heap, v) = Potential(before.shape, n)
    /\ before.multi /\ before.store =>
         Contents(heap, vSeq) = Sequence(before.shape, n, before.steps)

\* A call rejected, or failed in loading, launch or validation, leaves both
\* memories as they were: the same tensors with the same contents.  An
\* exception that escaped the handler is not promised this.
FailedCallKeepsState ==
  outcome = "raised" /\ ran.eager = 0 =>
    /\ v = saved.v /\ Contents(heap, v) = saved.potential
    /\ vSeq = saved.vSeq /\ Contents(heap, vSeq) = saved.voltages

\* Eager execution never follows a native launch in one call, and a strict
\* multi-step request never runs eagerly, whatever failed.
NoEagerAfterLaunch ==
  /\ ran.native => ran.eager = 0
  /\ before.multi /\ before.strict => ran.eager = 0

\* last_backend_route names the implementation that produced the result of a
\* multi-step call: the kernel or PyTorch.
RouteNamesWhatRan ==
  outcome = "returned" /\ before.multi =>
    route = IF ran.native THEN "native" ELSE "torch"

\* The voltages a caller read from v_seq keep their values for as long as it
\* holds them, although a reset writes the potential in place and later calls
\* rebind both memories.
ReadVoltagesKept ==
  Contents(heap, seen.ref) = seen.value
=============================================================================
