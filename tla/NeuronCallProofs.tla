--------------------------- MODULE NeuronCallProofs ---------------------------
(***************************************************************************)
(* What NeuronCall.tla states, proved for any shapes, sequence lengths and *)
(* numbers of inputs.                                                      *)
(*                                                                         *)
(* The properties speak of a call that has ended.  The invariant follows   *)
(* it: what the potential holds at every stage of the call (`EagerCall`,   *)
(* `NativeCall`), that the tensors the neuron had before are untouched     *)
(* until the kernel's result is committed, and that references reach the   *)
(* tensors they name while every other tensor is free (`Tidy`), so that no *)
(* allocation hands out a tensor that is in use.                           *)
(***************************************************************************)
EXTENDS NeuronCall, TLAPS

StepRefs == [cell : StepCells, grad : BOOLEAN]
SequenceRefs == [cell : SequenceCells, grad : BOOLEAN]
Tensors == {Free} \cup [shape : Shapes, fed : Nat, rows : Nat]

TypedHeap(h) ==
  /\ h \in [Cells -> Tensors]
  /\ \A c \in StepCells : h[c].rows = 0

(* r is no tensor or an allocated tensor of heap h.                        *)
Holds(h, r, refs) == r = NoTensor \/ (r \in refs /\ h[r.cell] # Free)

Reached(h, rs) ==
  \A c \in Cells : h[c] # Free => \E r \in rs \ {NoTensor} : r.cell = c

Tidy ==
  /\ TypedHeap(heap)
  /\ \A r \in {v, call.v, call.init, call.final} : Holds(heap, r, StepRefs)
  /\ \A r \in {vSeq, call.vSeq, call.seq, seen.ref} : Holds(heap, r, SequenceRefs)
  /\ Reached(heap, {v, vSeq} \cup Locals(call))

Types ==
  /\ pc \in {"idle", "prepare", "clone", "route", "validate", "eager"}
  /\ call \in [steps : Nat, shape : Shapes \cup {NoShape}, grad : BOOLEAN,
               t : Nat, strict : BOOLEAN, store : BOOLEAN, v : Memory,
               vSeq : Memory, init : Memory, final : Memory, seq : Memory]
  /\ ran \in [native : BOOLEAN, eager : Nat]

(* What the caller asked for and found.                                    *)
Asked ==
  /\ pc = "idle" => call = NoCall
  /\ pc # "idle" =>
       /\ outcome = "none"
       /\ call.steps \in Lengths /\ call.shape \in Shapes
       /\ before.carried \in Nat
       /\ before.steps = call.steps /\ before.shape = call.shape
       /\ before.multi = TRUE
       /\ before.strict = call.strict /\ before.store = call.store

(* t inputs of the sequence have been integrated.                          *)
EagerCall ==
  pc = "eager" =>
    /\ {call.v, call.vSeq, call.init, call.final, call.seq} = {NoTensor}
    /\ call.t <= call.steps
    /\ Carried(heap, v, call.shape) = before.carried + call.t
    /\ call.t > 0 => Contents(heap, v).shape = call.shape
    /\ ~ran.native /\ route = "torch" /\ ~call.strict

Untouched ==
  /\ call.v = saved.v /\ Contents(heap, call.v) = saved.potential
  /\ vSeq = saved.vSeq /\ Contents(heap, vSeq) = saved.voltages
  /\ call.vSeq = IF call.store THEN vSeq ELSE NoTensor

NativeCall ==
  /\ pc \in {"prepare", "clone", "route", "validate"} =>
       /\ Untouched
       /\ call.t = 0 /\ ran.eager = 0
  /\ pc = "prepare" =>
       /\ v = call.v
       /\ {call.init, call.final, call.seq} = {NoTensor}
       /\ Carried(heap, v, call.shape) = before.carried
       /\ ~ran.native
  /\ pc \in {"clone", "route"} =>
       /\ Contents(heap, v) = Potential(call.shape, before.carried)
       /\ {call.final, call.seq} = {NoTensor}
       /\ ~ran.native
  /\ pc = "clone" => call.init = NoTensor
  /\ pc \in {"route", "validate"} =>
       /\ call.init # NoTensor
       /\ v # NoTensor => call.init.cell # v.cell
       /\ call.v # NoTensor => call.init.cell # call.v.cell
  /\ pc = "route" =>
       Contents(heap, call.init) = Potential(call.shape, before.carried)
  /\ pc = "validate" =>
       /\ Contents(heap, call.final) =
            Potential(call.shape, before.carried + call.steps)
       /\ call.store =>
            Contents(heap, call.seq) =
              Sequence(call.shape, before.carried + call.steps, call.steps)
       /\ ran.native

Promises ==
  /\ InputsFedOnce
  /\ FailedCallKeepsState
  /\ NoEagerAfterLaunch
  /\ RouteNamesWhatRan

IInv ==
  /\ Types
  /\ Tidy
  /\ ReadVoltagesKept
  /\ Asked
  /\ EagerCall
  /\ NativeCall
  /\ Promises

-----------------------------------------------------------------------------
(* Tensors.                                                                *)

LEMMA RefTypes ==
  /\ StepRefs \subseteq Refs /\ SequenceRefs \subseteq Refs
  /\ NoTensor \notin StepRefs /\ NoTensor \notin SequenceRefs
  BY NoTensorIsNone DEF StepRefs, SequenceRefs, Refs, Cells

(* Of the tensors of a step, heap h has at most a, b and c allocated.      *)
Alive(h, a, b, c) == \A d \in StepCells : h[d] # Free => d \in {a, b, c}

LEMMA FreeStep ==
  ASSUME NEW h, NEW a, NEW b, NEW c, Alive(h, a, b, c)
  PROVE  Fresh(h) \in StepCells /\ h[Fresh(h)] = Free
<1>1. \E d \in StepCells : h[d] = Free
  BY EnoughTensors DEF EnoughTensors, Alive
<1>2. QED
  BY <1>1 DEF Fresh

AliveVoltages(h, a, b) == \A d \in SequenceCells : h[d] # Free => d \in {a, b}

LEMMA FreeSequence ==
  ASSUME NEW h, NEW a, NEW b, AliveVoltages(h, a, b)
  PROVE  FreshSequence(h) \in SequenceCells /\ h[FreshSequence(h)] = Free
<1>1. \E d \in SequenceCells : h[d] = Free
  BY EnoughTensors DEF EnoughTensors, AliveVoltages
<1>2. QED
  BY <1>1 DEF FreshSequence

(* A tensor is free or has a shape.                                        *)
LEMMA Shaped ==
  ASSUME NEW x \in Tensors
  PROVE  x # Free <=> x.shape \in Shapes
  BY NeuronCallAssumption DEF NeuronCallAssumption, Tensors, Free

(* Heap g is heap h with the free tensor c allocated, or h itself.         *)
Grows(h, g, c) ==
  /\ TypedHeap(g)
  /\ c \in Cells
  /\ h[c] = Free \/ g[c] = h[c]
  /\ \A d \in Cells \ {c} : g[d] = h[d]

LEMMA PutStep ==
  ASSUME NEW h, TypedHeap(h), NEW c \in StepCells, NEW s \in Shapes, NEW n \in Nat
  PROVE  /\ TypedHeap([h EXCEPT ![c] = Potential(s, n)])
         /\ [h EXCEPT ![c] = Potential(s, n)][c] = Potential(s, n)
         /\ Potential(s, n) # Free
<1>1. Potential(s, n) \in Tensors /\ Potential(s, n).rows = 0
  BY DEF Potential, Tensors
<1>2. Potential(s, n) # Free
  BY NeuronCallAssumption DEF NeuronCallAssumption, Potential, Free
<1>3. QED
  BY <1>1, <1>2 DEF TypedHeap, Cells

LEMMA PutSequence ==
  ASSUME NEW h, TypedHeap(h), NEW c \in SequenceCells,
         NEW s \in Shapes, NEW n \in Nat, NEW t \in Nat
  PROVE  /\ TypedHeap([h EXCEPT ![c] = Sequence(s, n, t)])
         /\ [h EXCEPT ![c] = Sequence(s, n, t)][c] = Sequence(s, n, t)
         /\ Sequence(s, n, t) # Free
<1>1. Sequence(s, n, t) \in Tensors
  BY DEF Sequence, Tensors
<1>2. Sequence(s, n, t) # Free
  BY NeuronCallAssumption DEF NeuronCallAssumption, Sequence, Free
<1>3. c \notin StepCells
  BY NeuronCallAssumption DEF NeuronCallAssumption
<1>4. QED
  BY <1>1, <1>2, <1>3 DEF TypedHeap, Cells

(* A potential in the heap, as its fields.                                 *)
LEMMA PotentialOf ==
  ASSUME NEW h, TypedHeap(h), NEW r, Holds(h, r, StepRefs), NEW s \in Shapes,
         Contents(h, r).shape = s
  PROVE  /\ r \in StepRefs
         /\ Contents(h, r) = Potential(s, h[r.cell].fed)
         /\ h[r.cell] = Potential(s, h[r.cell].fed)
         /\ h[r.cell].fed \in Nat
<1>1. r # NoTensor
  BY NeuronCallAssumption DEF NeuronCallAssumption, Contents, Free
<1>2. r \in StepRefs /\ r.cell \in StepCells /\ h[r.cell] # Free
  BY <1>1 DEF Holds, StepRefs
<1>3. h[r.cell] \in [shape : Shapes, fed : Nat, rows : Nat] /\ h[r.cell].rows = 0
  BY <1>2 DEF TypedHeap, Tensors, Cells
<1>4. QED
  BY <1>1, <1>2, <1>3 DEF Contents, Potential

(* v_float_to_tensor carries the inputs of a potential of that shape.      *)
LEMMA MaterializedIs ==
  ASSUME NEW h, TypedHeap(h), NEW r, Holds(h, r, StepRefs), NEW s \in Shapes,
         NEW a, NEW b, NEW c, Alive(h, a, b, c),
         NEW m \in Materialized(h, r, s)
  PROVE  /\ Grows(h, m.heap, m.v.cell)
         /\ m.v \in StepRefs
         /\ Carried(h, r, s) \in Nat
         /\ m.heap[m.v.cell] = Potential(s, Carried(h, r, s))
<1>1. Fresh(h) \in StepCells /\ h[Fresh(h)] = Free
  BY FreeStep
<1>2. CASE Contents(h, r).shape = s
  <2>1. /\ r \in StepRefs /\ h[r.cell] = Potential(s, h[r.cell].fed)
        /\ h[r.cell].fed \in Nat
    BY <1>2, PotentialOf
  <2>2. Carried(h, r, s) = h[r.cell].fed
    BY <1>2 DEF Carried
  <2>3. CASE m = [v |-> r, heap |-> h]
    BY <2>1, <2>2, <2>3 DEF Grows, StepRefs, Cells
  <2>4. CASE m = [v |-> Ref(Fresh(h), r.grad),
                  heap |-> [h EXCEPT ![Fresh(h)] = h[r.cell]]]
    <3>1. m.v \in StepRefs /\ m.v.cell = Fresh(h)
      BY <1>1, <2>1, <2>4 DEF Ref, StepRefs
    <3>2. m.heap = [h EXCEPT ![Fresh(h)] = Potential(s, h[r.cell].fed)]
      BY <2>1, <2>4
    <3>3. TypedHeap(m.heap) /\ m.heap[m.v.cell] = Potential(s, h[r.cell].fed)
      BY <1>1, <2>1, <3>1, <3>2, PutStep
    <3>4. QED
      BY <1>1, <2>1, <2>2, <3>1, <3>2, <3>3 DEF Grows, Cells, TypedHeap
  <2>5. QED
    BY <1>2, <2>3, <2>4 DEF Materialized
<1>3. CASE Contents(h, r).shape # s
  <2>1. Carried(h, r, s) = 0
    BY <1>3 DEF Carried
  <2>2. m = [v |-> Ref(Fresh(h), FALSE),
             heap |-> [h EXCEPT ![Fresh(h)] = Potential(s, 0)]]
    BY <1>3 DEF Materialized
  <2>3. m.v \in StepRefs /\ m.v.cell = Fresh(h) /\ 0 \in Nat
    BY <1>1, <2>2 DEF Ref, StepRefs
  <2>4. m.heap = [h EXCEPT ![Fresh(h)] = Potential(s, 0)]
    BY <2>2
  <2>5. TypedHeap(m.heap) /\ m.heap[m.v.cell] = Potential(s, 0)
    BY <1>1, <2>3, <2>4, PutStep
  <2>6. QED
    BY <1>1, <2>1, <2>3, <2>4, <2>5 DEF Grows, Cells, TypedHeap
<1>4. QED
  BY <1>2, <1>3

(* A step integrates one input more, in a tensor of its own.               *)
LEMMA SteppedIs ==
  ASSUME NEW h, TypedHeap(h), NEW r \in StepRefs, NEW s \in Shapes, NEW n \in Nat,
         h[r.cell] = Potential(s, n), NEW g \in BOOLEAN,
         NEW a, NEW b, NEW c, Alive(h, a, b, c),
         NEW x, x = Stepped(h, r, g)
  PROVE  /\ Grows(h, x.heap, x.v.cell)
         /\ x.v \in StepRefs
         /\ x.heap[x.v.cell] = Potential(s, n + 1)
<1> DEFINE f == Fresh(h)
<1>1. f \in StepCells /\ h[f] = Free
  BY FreeStep
<1>2. x.v \in StepRefs /\ x.v.cell = f
  BY <1>1 DEF Stepped, Ref, StepRefs
<1>3. x.heap = [h EXCEPT ![f] = Potential(s, n + 1)]
  BY DEF Stepped, Potential
<1> HIDE DEF f
<1>4. TypedHeap(x.heap) /\ x.heap[f] = Potential(s, n + 1)
  BY <1>1, <1>3, PutStep
<1>5. Grows(h, x.heap, f)
  BY <1>1, <1>3, <1>4 DEF Grows, Cells, TypedHeap
<1>6. QED
  BY <1>2, <1>4, <1>5

(* Nothing that is referred to is collected, and everything else is.       *)
LEMMA CollectKeeps ==
  ASSUME NEW h, TypedHeap(h), NEW rs
  PROVE  /\ TypedHeap(Collect(h, rs))
         /\ \A r \in rs : r \in Refs => Collect(h, rs)[r.cell] = h[r.cell]
         /\ Reached(Collect(h, rs), rs)
<1>1. Free \in Tensors /\ Free.rows = 0
  BY DEF Tensors, Free
<1>2. StepCells \subseteq Cells
  BY DEF Cells
<1>3. TypedHeap(Collect(h, rs))
  BY <1>1, <1>2 DEF TypedHeap, Collect
<1>4. ASSUME NEW r \in rs, r \in Refs PROVE Collect(h, rs)[r.cell] = h[r.cell]
  BY <1>4, NoTensorIsNone DEF Collect, Refs
<1>5. Reached(Collect(h, rs), rs)
  BY DEF Reached, Collect
<1>6. QED
  BY <1>3, <1>4, <1>5

(* Everything allocated in heap h is as it was in heap g.                  *)
Kept(h, g) == \A d \in Cells : h[d] # Free => g[d] = h[d]

LEMMA GrowsKeeps ==
  ASSUME NEW h, NEW g, NEW c, Grows(h, g, c)
  PROVE  TypedHeap(g) /\ Kept(h, g)
  BY DEF Grows, Kept

LEMMA HoldsKept ==
  ASSUME NEW h, NEW g, Kept(h, g), NEW refs \in {StepRefs, SequenceRefs},
         NEW r, Holds(h, r, refs)
  PROVE  Holds(g, r, refs) /\ Contents(g, r) = Contents(h, r)
<1>1. CASE r = NoTensor
  BY <1>1 DEF Holds, Contents
<1>2. CASE r \in refs /\ h[r.cell] # Free
  <2>1. r.cell \in Cells
    BY <1>2, RefTypes DEF Refs
  <2>2. QED
    BY <1>2, <2>1 DEF Holds, Contents, Kept
<1>3. QED
  BY <1>1, <1>2 DEF Holds

LEMMA HoldsType ==
  ASSUME NEW h, NEW refs \in {StepRefs, SequenceRefs}, NEW r, Holds(h, r, refs)
  PROVE  r \in Memory
  BY RefTypes DEF Holds, Memory

(* Between allocations a call keeps at most three tensors of a step and    *)
(* two sequences alive.                                                    *)
LEMMA AliveSteps ==
  ASSUME IInv, pc # "validate"
  PROVE  /\ Alive(heap, v.cell, call.v.cell, call.init.cell)
         /\ pc \in {"idle", "eager", "prepare"} =>
              Alive(heap, v.cell, v.cell, v.cell)
         /\ pc = "clone" => Alive(heap, v.cell, call.v.cell, v.cell)
<1> SUFFICES ASSUME NEW d \in StepCells, heap[d] # Free
             PROVE  /\ d \in {v.cell, call.v.cell, call.init.cell}
                    /\ pc \in {"idle", "eager", "prepare"} => d = v.cell
                    /\ pc = "clone" => d \in {v.cell, call.v.cell}
  BY DEF Alive
<1>1. call.final = NoTensor
  BY DEF IInv, Types, Asked, NoCall, EagerCall, NativeCall
<1>2. PICK r \in ({v, vSeq} \cup Locals(call)) \ {NoTensor} : r.cell = d
  BY DEF IInv, Tidy, Reached, Cells
<1>3. d \notin SequenceCells
  BY NeuronCallAssumption DEF NeuronCallAssumption
<1>4. r \notin {vSeq, call.vSeq, call.seq, seen.ref}
  BY <1>2, <1>3 DEF IInv, Tidy, Holds, SequenceRefs
<1>5. r \in {v, call.v, call.init} \ {NoTensor}
  BY <1>1, <1>2, <1>4 DEF Locals
<1>6. pc \in {"idle", "eager"} => r = v
  BY <1>5 DEF IInv, Asked, NoCall, EagerCall
<1>7. pc \in {"prepare", "clone"} => r \in {v, call.v}
  BY <1>5 DEF IInv, NativeCall
<1>8. pc = "prepare" => r = v
  BY <1>7 DEF IInv, NativeCall
<1>9. QED
  BY <1>2, <1>5, <1>6, <1>7, <1>8

LEMMA AliveSequences ==
  ASSUME IInv, pc # "validate"
  PROVE  AliveVoltages(heap, vSeq.cell, seen.ref.cell)
<1> SUFFICES ASSUME NEW d \in SequenceCells, heap[d] # Free
             PROVE  d \in {vSeq.cell, seen.ref.cell}
  BY DEF AliveVoltages
<1>1. call.seq = NoTensor /\ call.vSeq \in {vSeq, NoTensor}
  BY DEF IInv, Types, Asked, NoCall, EagerCall, NativeCall, Untouched
<1>2. PICK r \in ({v, vSeq} \cup Locals(call)) \ {NoTensor} : r.cell = d
  BY DEF IInv, Tidy, Reached, Cells
<1>3. d \notin StepCells
  BY NeuronCallAssumption DEF NeuronCallAssumption
<1>4. r \notin {v, call.v, call.init, call.final}
  BY <1>2, <1>3 DEF IInv, Tidy, Holds, StepRefs
<1>5. r \in {vSeq, seen.ref}
  BY <1>1, <1>2, <1>4 DEF Locals
<1>6. QED
  BY <1>2, <1>5

(* What a step finds and leaves, in an eager call or a single step.        *)
LEMMA MaterializedNow ==
  ASSUME IInv, pc \in {"idle", "eager", "prepare"}, NEW s \in Shapes,
         NEW m \in Materialized(heap, v, s)
  PROVE  /\ TypedHeap(m.heap) /\ Kept(heap, m.heap)
         /\ Grows(heap, m.heap, m.v.cell)
         /\ m.v \in StepRefs
         /\ Carried(heap, v, s) \in Nat
         /\ m.heap[m.v.cell] = Potential(s, Carried(heap, v, s))
         /\ Alive(m.heap, v.cell, m.v.cell, m.v.cell)
<1>1. Alive(heap, v.cell, v.cell, v.cell)
  BY AliveSteps
<1>2. /\ Grows(heap, m.heap, m.v.cell) /\ m.v \in StepRefs
      /\ Carried(heap, v, s) \in Nat
      /\ m.heap[m.v.cell] = Potential(s, Carried(heap, v, s))
  BY <1>1, MaterializedIs DEF IInv, Tidy
<1>3. Alive(m.heap, v.cell, m.v.cell, m.v.cell)
  BY <1>1, <1>2 DEF Grows, Cells, Alive
<1>4. QED
  BY <1>2, <1>3, GrowsKeeps

LEMMA SteppedNow ==
  ASSUME IInv, pc \in {"idle", "eager", "prepare"}, NEW s \in Shapes,
         NEW m \in Materialized(heap, v, s), NEW g \in BOOLEAN,
         NEW x, x = Stepped(m.heap, m.v, g)
  PROVE  /\ TypedHeap(x.heap) /\ Kept(heap, x.heap)
         /\ x.v \in StepRefs
         /\ x.heap[x.v.cell] = Potential(s, Carried(heap, v, s) + 1)
<1> DEFINE h == m.heap
           r == m.v
           n == Carried(heap, v, s)
<1>1. /\ TypedHeap(h) /\ Kept(heap, h)
      /\ r \in StepRefs /\ n \in Nat /\ h[r.cell] = Potential(s, n)
      /\ Alive(h, v.cell, r.cell, r.cell)
  BY MaterializedNow
<1>2. x = Stepped(h, r, g)
  OBVIOUS
<1> HIDE DEF h, r, n
<1>3. /\ Grows(h, x.heap, x.v.cell)
      /\ x.v \in StepRefs
      /\ x.heap[x.v.cell] = Potential(s, n + 1)
  BY <1>1, <1>2, SteppedIs
<1>4. TypedHeap(x.heap) /\ Kept(h, x.heap)
  BY <1>3, GrowsKeeps
<1>5. QED
  BY <1>1, <1>3, <1>4 DEF Kept, n

LEMMA Allocated ==
  ASSUME NEW h, NEW r, r \in StepRefs, NEW s \in Shapes, NEW n,
         h[r.cell] = Potential(s, n)
  PROVE  Holds(h, r, StepRefs) /\ Contents(h, r) = Potential(s, n)
  BY RefTypes, NeuronCallAssumption
  DEF NeuronCallAssumption, Holds, Contents, Potential, Free

(* A step that collects what nothing refers to.                            *)
LEMMA TidyCollect ==
  ASSUME NEW h, TypedHeap(h), NEW rs, heap' = Collect(h, rs),
         rs \ {NoTensor} = (({v, vSeq} \cup Locals(call)) \ {NoTensor})',
         \A r \in {v', call'.v, call'.init, call'.final} : Holds(h, r, StepRefs),
         \A r \in {vSeq', call'.vSeq, call'.seq, seen'.ref} :
           Holds(h, r, SequenceRefs)
  PROVE  /\ Tidy'
         /\ \A r \in {v', vSeq', call'.v, call'.init, call'.final, call'.vSeq,
                     call'.seq, seen'.ref} : Contents(heap', r) = Contents(h, r)
<1> DEFINE steps == {v', call'.v, call'.init, call'.final}
           sequences == {vSeq', call'.vSeq, call'.seq, seen'.ref}
<1>1. /\ TypedHeap(heap')
      /\ \A r \in rs : r \in Refs => heap'[r.cell] = h[r.cell]
      /\ Reached(heap', rs)
  BY CollectKeeps
<1>2. \A r \in steps \cup sequences : r = NoTensor \/ r \in rs
  BY DEF Locals
<1>3. \A r \in steps \cup sequences : r = NoTensor \/ r \in Refs
  BY RefTypes DEF Holds
<1>4. \A r \in steps \cup sequences : Contents(heap', r) = Contents(h, r)
  BY <1>1, <1>2, <1>3 DEF Contents
<1>5. \A r \in steps : Holds(heap', r, StepRefs)
  BY <1>1, <1>2, <1>3 DEF Holds
<1>6. \A r \in sequences : Holds(heap', r, SequenceRefs)
  BY <1>1, <1>2, <1>3 DEF Holds
<1>7. Reached(heap, {v, vSeq} \cup Locals(call))'
  BY <1>1 DEF Reached
<1>8. QED
  BY <1>1, <1>4, <1>5, <1>6, <1>7 DEF Tidy

(* A step that leaves the heap and the memories alone.                     *)
LEMMA TidyCall ==
  ASSUME IInv, UNCHANGED <<v, vSeq, heap, seen>>,
         call'.v \in {call.v, v}, call'.vSeq \in {call.vSeq, vSeq},
         call'.init = call.init, call'.final = call.final, call'.seq = call.seq,
         call.v \in {call'.v, v, NoTensor}, call.vSeq \in {call'.vSeq, vSeq, NoTensor}
  PROVE  Tidy' /\ ReadVoltagesKept'
<1>1. Reached(heap, {v, vSeq} \cup Locals(call))'
  BY DEF IInv, Tidy, Reached, Locals
<1>2. QED
  BY <1>1 DEF IInv, Tidy, ReadVoltagesKept

LEMMA ReadSeen ==
  ASSUME IInv
  PROVE  /\ Holds(heap, seen.ref, SequenceRefs)
         /\ Contents(heap, seen.ref) = seen.value
  BY DEF IInv, Tidy, ReadVoltagesKept

(* The neuron keeps n and w, and no call is under way.                     *)
LEMMA EndStep ==
  ASSUME NEW h, TypedHeap(h), Holds(h, v', StepRefs), Holds(h, vSeq', SequenceRefs),
         Holds(h, seen'.ref, SequenceRefs), Contents(h, seen'.ref) = seen'.value,
         pc' = "idle", call' = NoCall,
         NEW rs, rs \ {NoTensor} = {v', vSeq', seen'.ref} \ {NoTensor},
         heap' = Collect(h, rs),
         ran' \in [native : BOOLEAN, eager : Nat]
  PROVE  /\ Contents(heap', v') = Contents(h, v')
         /\ Contents(heap', vSeq') = Contents(h, vSeq')
         /\ Promises' => IInv'
<1>1. {call'.v, call'.init, call'.final, call'.vSeq, call'.seq} = {NoTensor}
  BY DEF NoCall
<1>2. rs \ {NoTensor} = (({v, vSeq} \cup Locals(call)) \ {NoTensor})'
  BY <1>1 DEF Locals
<1>3. \A r \in {v', call'.v, call'.init, call'.final} : Holds(h, r, StepRefs)
  BY <1>1 DEF Holds
<1>4. \A r \in {vSeq', call'.vSeq, call'.seq, seen'.ref} : Holds(h, r, SequenceRefs)
  BY <1>1 DEF Holds
<1>5. /\ Tidy'
      /\ Contents(heap', v') = Contents(h, v')
      /\ Contents(heap', vSeq') = Contents(h, vSeq')
      /\ Contents(heap', seen'.ref) = Contents(h, seen'.ref)
  BY <1>2, <1>3, <1>4, TidyCollect
<1>6. Types'
  BY DEF Types, NoCall, Memory
<1>7. ReadVoltagesKept'
  BY <1>5 DEF ReadVoltagesKept
<1>8. Asked' /\ EagerCall' /\ NativeCall'
  BY DEF Asked, EagerCall, NativeCall
<1>9. QED
  BY <1>5, <1>6, <1>7, <1>8 DEF IInv

(* A forward that is left with the memories n and w of heap h, in which    *)
(* everything is kept that was allocated.                                  *)
LEMMA LeaveStep ==
  ASSUME IInv, NEW h, TypedHeap(h), NEW n, Holds(h, n, StepRefs),
         NEW w, Holds(h, w, SequenceRefs), Contents(h, seen.ref) = Contents(heap, seen.ref),
         Holds(h, seen.ref, SequenceRefs),
         NEW o, Leave(o, n, w, h), seen' = seen,
         ran' \in [native : BOOLEAN, eager : Nat]
  PROVE  /\ v' = n /\ vSeq' = w /\ outcome' = o
         /\ Contents(heap', v') = Contents(h, n)
         /\ Contents(heap', vSeq') = Contents(h, w)
         /\ Promises' => IInv'
<1>1. /\ v' = n /\ vSeq' = w /\ outcome' = o /\ pc' = "idle" /\ call' = NoCall
      /\ heap' = Collect(h, {n, w, seen.ref})
  BY DEF Leave, Finish
<1>2. Contents(h, seen'.ref) = seen'.value
  BY ReadSeen
<1>3. QED
  BY <1>1, <1>2, EndStep

LEMMA CarriedNat ==
  ASSUME IInv, NEW s \in Shapes
  PROVE  Carried(heap, v, s) \in Nat
  BY PotentialOf DEF IInv, Tidy, Carried

-----------------------------------------------------------------------------
(* The caller between two calls.                                           *)

LEMMA IdlePromises ==
  ASSUME Idle
  PROVE  /\ Promises'
         /\ pc' = "idle" /\ pc = "idle" /\ call' = call
         /\ ran' \in [native : BOOLEAN, eager : Nat]
  BY DEF Idle, Nothing, NotCalled, Promises, InputsFedOnce, FailedCallKeepsState,
         NoEagerAfterLaunch, RouteNamesWhatRan

(* Nothing but v changes, and v keeps its tensor.                          *)
LEMMA DetachStep ==
  ASSUME IInv, Idle, v' = v \/ (v # NoTensor /\ v' = Ref(v.cell, FALSE)),
         UNCHANGED <<vSeq, heap, seen>>
  PROVE  IInv'
<1>1. CASE v' = v
  BY <1>1, IdlePromises
  DEF IInv, Types, Tidy, Locals, ReadVoltagesKept, Asked, EagerCall, NativeCall
<1>2. CASE v' = Ref(v.cell, FALSE) /\ v # NoTensor
  <2>1. v \in StepRefs /\ heap[v.cell] # Free
    BY <1>2 DEF IInv, Tidy, Holds
  <2>2. v' \in StepRefs /\ v'.cell = v.cell
    BY <1>2, <2>1 DEF Ref, StepRefs
  <2>3. Holds(heap, v', StepRefs)
    BY <2>1, <2>2 DEF Holds
  <2>4. v' # NoTensor
    BY <2>2, RefTypes
  <2>5. Reached(heap', {v', vSeq'} \cup Locals(call)')
    BY <2>2, <2>4, IdlePromises DEF IInv, Tidy, Reached, Locals
  <2>6. Tidy'
    BY <2>3, <2>5, IdlePromises DEF IInv, Tidy
  <2>7. QED
    BY <2>6, IdlePromises
    DEF IInv, Types, ReadVoltagesKept, Asked, EagerCall, NativeCall
<1>3. QED
  BY <1>1, <1>2

LEMMA ConvertStep ==
  ASSUME IInv, Convert
  PROVE  IInv'
<1> DEFINE c1 == Fresh(heap)
           h1 == IF v = NoTensor THEN heap ELSE [heap EXCEPT ![c1] = heap[v.cell]]
           c2 == FreshSequence(h1)
           h2 == IF vSeq = NoTensor THEN h1
                 ELSE [h1 EXCEPT ![c2] = heap[vSeq.cell]]
<1>1. CASE UNCHANGED <<v, vSeq, heap>>
  <2>1. Idle /\ seen' = seen
    BY DEF Convert
  <2>2. v' = v /\ vSeq' = vSeq /\ heap' = heap
    BY <1>1
  <2>3. QED
    BY <2>1, <2>2, DetachStep
<1>2. CASE /\ v' = IF v = NoTensor THEN v ELSE Ref(c1, v.grad)
           /\ vSeq' = IF vSeq = NoTensor THEN vSeq ELSE Ref(c2, FALSE)
           /\ heap' = Collect(h2, {v', vSeq', seen.ref})
  <2>1. pc = "idle" /\ call = NoCall
    BY DEF Convert, Idle, IInv, Asked
  <2>2. c1 \in StepCells /\ heap[c1] = Free /\ c1 \notin SequenceCells
    BY <2>1, AliveSteps, FreeStep, NeuronCallAssumption DEF NeuronCallAssumption
  <2>3. /\ TypedHeap(h1) /\ Kept(heap, h1) /\ Holds(h1, v', StepRefs)
        /\ \A d \in SequenceCells : h1[d] = heap[d]
    BY <1>2, <2>2, RefTypes
    DEF IInv, Tidy, Holds, TypedHeap, Kept, Cells, StepRefs, Ref
  <2> HIDE DEF h1
  <2>4. c2 \in SequenceCells /\ h1[c2] = Free /\ c2 \notin StepCells
    <3>1. AliveVoltages(h1, vSeq.cell, seen.ref.cell)
      BY <2>1, <2>3, AliveSequences DEF AliveVoltages
    <3>2. QED
      BY <3>1, FreeSequence, NeuronCallAssumption DEF NeuronCallAssumption
  <2>5. TypedHeap(h2) /\ Kept(h1, h2) /\ Holds(h2, vSeq', SequenceRefs)
    BY <1>2, <2>3, <2>4, RefTypes
    DEF IInv, Tidy, Holds, TypedHeap, Kept, Cells, SequenceRefs, Ref
  <2> HIDE DEF h2
  <2>6. Kept(heap, h2)
    BY <2>3, <2>5 DEF Kept
  <2>7. Holds(h2, v', StepRefs)
    BY <2>3, <2>5, HoldsKept
  <2>8. /\ Holds(h2, seen.ref, SequenceRefs)
        /\ Contents(h2, seen.ref) = seen.value
    BY <2>6, HoldsKept, ReadSeen
  <2>9. seen' = seen /\ call' = NoCall
    BY <2>1, IdlePromises DEF Convert
  <2>10. QED
    BY <1>2, <2>5, <2>7, <2>8, <2>9, IdlePromises, EndStep DEF Convert
<1>3. QED
  BY <1>1, <1>2 DEF Convert

LEMMA ResetStep ==
  ASSUME IInv, Reset
  PROVE  IInv'
<1>1. pc = "idle" /\ call = NoCall /\ call' = NoCall /\ pc' = "idle"
      /\ vSeq' = NoTensor /\ seen' = seen /\ Promises'
      /\ ran' \in [native : BOOLEAN, eager : Nat]
  BY IdlePromises DEF Reset, Idle, IInv, Asked
<1>2. CASE v = NoTensor
  <2>1. Holds(heap, v', StepRefs) /\ Holds(heap, vSeq', SequenceRefs)
    BY <1>1, <1>2 DEF Reset, Holds
  <2>2. TypedHeap(heap) /\ heap' = Collect(heap, {seen.ref})
    BY <1>2 DEF Reset, IInv, Tidy
  <2>3. {seen.ref} \ {NoTensor} = {v', vSeq', seen'.ref} \ {NoTensor}
    BY <1>1, <1>2 DEF Reset
  <2>4. QED
    BY <1>1, <2>1, <2>2, <2>3, ReadSeen, EndStep
<1>3. CASE v # NoTensor
  <2> DEFINE c == IF v.grad THEN Fresh(heap) ELSE v.cell
             s == heap[v.cell].shape
             h == [heap EXCEPT ![c] = Potential(s, 0)]
  <2>1. v \in StepRefs /\ v.cell \in StepCells /\ heap[v.cell] # Free
    BY <1>3 DEF IInv, Tidy, Holds, StepRefs
  <2>2. s \in Shapes
    BY <2>1, Shaped DEF IInv, Tidy, TypedHeap, Cells
  <2>3. c \in StepCells /\ c \notin SequenceCells
    BY <1>1, <2>1, AliveSteps, FreeStep, NeuronCallAssumption
    DEF NeuronCallAssumption
  <2>4. v' = Ref(c, FALSE) /\ heap' = Collect(h, {v', seen.ref})
    BY <1>3 DEF Reset
  <2> HIDE DEF c, s
  <2>5. TypedHeap(h) /\ h[c] # Free
    BY <2>2, <2>3, PutStep DEF IInv, Tidy
  <2>6. \A d \in SequenceCells : h[d] = heap[d]
    BY <2>3 DEF IInv, Tidy, TypedHeap, Cells
  <2>7. Holds(h, v', StepRefs) /\ Holds(h, vSeq', SequenceRefs)
    BY <1>1, <2>3, <2>4, <2>5 DEF Holds, Ref, StepRefs
  <2>8. Holds(h, seen.ref, SequenceRefs) /\ Contents(h, seen.ref) = seen.value
    BY <2>6, ReadSeen DEF Holds, Contents, SequenceRefs
  <2>9. {v', seen.ref} \ {NoTensor} = {v', vSeq', seen'.ref} \ {NoTensor}
    BY <1>1
  <2> HIDE DEF h
  <2>10. QED
    BY <1>1, <2>4, <2>5, <2>7, <2>8, <2>9, EndStep
<1>4. QED
  BY <1>2, <1>3

LEMMA ReadVoltagesStep ==
  ASSUME IInv, ReadVoltages
  PROVE  IInv'
<1>1. pc = "idle" /\ call = NoCall /\ call' = NoCall /\ pc' = "idle" /\ Promises'
      /\ ran' \in [native : BOOLEAN, eager : Nat]
  BY IdlePromises DEF ReadVoltages, Idle, IInv, Asked
<1>2. /\ v' = v /\ vSeq' = vSeq /\ seen'.ref = vSeq
      /\ seen'.value = Contents(heap, vSeq)
      /\ heap' = Collect(heap, {v, vSeq})
  BY DEF ReadVoltages, Contents
<1>3. Holds(heap, v, StepRefs) /\ Holds(heap, vSeq, SequenceRefs) /\ TypedHeap(heap)
  BY DEF IInv, Tidy
<1>4. QED
  BY <1>1, <1>2, <1>3, EndStep

-----------------------------------------------------------------------------
(* Forwards that run on PyTorch.                                           *)

(* What a step on PyTorch does to the memories, whether it raises or not.  *)
LEMMA StepKeeps ==
  ASSUME IInv, pc \in {"idle", "eager"}, NEW s \in Shapes,
         NEW m \in Materialized(heap, v, s), NEW g \in BOOLEAN,
         NEW x \in {m, Stepped(m.heap, m.v, g)}
  PROVE  /\ TypedHeap(x.heap)
         /\ Holds(x.heap, x.v, StepRefs)
         /\ Holds(x.heap, vSeq, SequenceRefs)
         /\ Holds(x.heap, seen.ref, SequenceRefs)
         /\ Contents(x.heap, vSeq) = Contents(heap, vSeq)
         /\ Contents(x.heap, seen.ref) = Contents(heap, seen.ref)
         /\ Carried(heap, v, s) \in Nat
         /\ x = Stepped(m.heap, m.v, g) =>
              Contents(x.heap, x.v) = Potential(s, Carried(heap, v, s) + 1)
<1>1. /\ TypedHeap(m.heap) /\ Kept(heap, m.heap) /\ m.v \in StepRefs
      /\ Carried(heap, v, s) \in Nat
      /\ m.heap[m.v.cell] = Potential(s, Carried(heap, v, s))
  BY MaterializedNow
<1>2. Holds(heap, vSeq, SequenceRefs) /\ Holds(heap, seen.ref, SequenceRefs)
  BY DEF IInv, Tidy
<1>3. CASE x = m
  <2>1. /\ TypedHeap(x.heap) /\ Kept(heap, x.heap)
        /\ Holds(x.heap, x.v, StepRefs)
    BY <1>1, <1>3, Allocated
  <2>2. Contents(x.heap, x.v) = Potential(s, Carried(heap, v, s))
    BY <1>1, <1>3, Allocated
  <2>3. x = Stepped(m.heap, m.v, g) =>
          Contents(x.heap, x.v) = Potential(s, Carried(heap, v, s) + 1)
    <3> SUFFICES ASSUME x = Stepped(m.heap, m.v, g)
                 PROVE  Contents(x.heap, x.v) = Potential(s, Carried(heap, v, s) + 1)
      OBVIOUS
    <3>1. /\ x.v \in StepRefs
          /\ x.heap[x.v.cell] = Potential(s, Carried(heap, v, s) + 1)
      BY SteppedNow
    <3>2. QED
      BY <3>1, Allocated
  <2>4. QED
    BY <1>1, <1>2, <2>1, <2>3, HoldsKept
<1>4. CASE x = Stepped(m.heap, m.v, g)
  <2>1. /\ TypedHeap(x.heap) /\ Kept(heap, x.heap)
        /\ x.v \in StepRefs
        /\ x.heap[x.v.cell] = Potential(s, Carried(heap, v, s) + 1)
    BY <1>4, SteppedNow
  <2>2. /\ Holds(x.heap, x.v, StepRefs)
        /\ Contents(x.heap, x.v) = Potential(s, Carried(heap, v, s) + 1)
    BY <2>1, Allocated
  <2>3. QED
    BY <1>1, <1>2, <2>1, <2>2, HoldsKept
<1>5. QED
  BY <1>3, <1>4

LEMMA SingleStepStep ==
  ASSUME IInv, SingleStep
  PROVE  IInv'
<1>1. PICK s \in Shapes, g, aspy, strict \in BOOLEAN :
        /\ pc = "idle"
        /\ Carried(heap, v, s) < MaxFed
        /\ before' = Started(s, 1, FALSE, strict /\ aspy, FALSE)
        /\ IF kind = "klif" /\ aspy /\ strict
             THEN /\ Leave("raised", v, vSeq, heap)
                  /\ saved' = Memories
                  /\ ran' = Nothing
                  /\ UNCHANGED route
             ELSE /\ \E m \in Materialized(heap, v, s) :
                       LET n == Stepped(m.heap, m.v, g) IN
                       \/ /\ Leave("returned", n.v, vSeq, n.heap)
                          /\ ran' = [native |-> FALSE, eager |-> 1]
                       \/ \E x \in {m, n} :
                            /\ Leave("raised", x.v, vSeq, x.heap)
                            /\ ran' = [native |-> FALSE, eager |-> 1]
                  /\ saved' = NotSaved
                  /\ route' = IF aspy THEN "torch" ELSE route
        /\ UNCHANGED <<neuron, seen>>
  BY DEF SingleStep
<1>2. /\ before'.carried = Carried(heap, v, s) /\ before'.steps = 1
      /\ before'.shape = s /\ before'.multi = FALSE
  BY <1>1 DEF Started
<1>3. CASE kind = "klif" /\ aspy /\ strict
  <2>1. Leave("raised", v, vSeq, heap) /\ saved' = Memories /\ ran' = Nothing
    BY <1>1, <1>3
  <2>2. ran' \in [native : BOOLEAN, eager : Nat]
    BY <2>1 DEF Nothing
  <2>3. Holds(heap, v, StepRefs) /\ Holds(heap, vSeq, SequenceRefs) /\ TypedHeap(heap)
    BY DEF IInv, Tidy
  <2>4. /\ v' = v /\ vSeq' = vSeq /\ outcome' = "raised"
        /\ Contents(heap', v') = Contents(heap, v)
        /\ Contents(heap', vSeq') = Contents(heap, vSeq)
        /\ Promises' => IInv'
    BY <1>1, <2>1, <2>2, <2>3, ReadSeen, LeaveStep
  <2>5. QED
    BY <1>2, <2>1, <2>4
    DEF Promises, InputsFedOnce, FailedCallKeepsState, NoEagerAfterLaunch,
        RouteNamesWhatRan, Memories, Nothing
<1>4. CASE ~(kind = "klif" /\ aspy /\ strict)
  <2>1. PICK m \in Materialized(heap, v, s) :
          LET n == Stepped(m.heap, m.v, g) IN
          \/ /\ Leave("returned", n.v, vSeq, n.heap)
             /\ ran' = [native |-> FALSE, eager |-> 1]
          \/ \E x \in {m, n} :
               /\ Leave("raised", x.v, vSeq, x.heap)
               /\ ran' = [native |-> FALSE, eager |-> 1]
    BY <1>1, <1>4
  <2>2. PICK x \in {m, Stepped(m.heap, m.v, g)}, o \in {"returned", "raised"} :
          /\ Leave(o, x.v, vSeq, x.heap)
          /\ o = "returned" => x = Stepped(m.heap, m.v, g)
          /\ ran' = [native |-> FALSE, eager |-> 1]
    BY <2>1
  <2>3. /\ TypedHeap(x.heap)
        /\ Holds(x.heap, x.v, StepRefs)
        /\ Holds(x.heap, vSeq, SequenceRefs)
        /\ Holds(x.heap, seen.ref, SequenceRefs)
        /\ Contents(x.heap, seen.ref) = Contents(heap, seen.ref)
        /\ x = Stepped(m.heap, m.v, g) =>
             Contents(x.heap, x.v) = Potential(s, Carried(heap, v, s) + 1)
    BY <1>1, StepKeeps
  <2>4. ran' \in [native : BOOLEAN, eager : Nat]
    BY <2>2
  <2>5. /\ v' = x.v /\ outcome' = o
        /\ Contents(heap', v') = Contents(x.heap, x.v)
        /\ Promises' => IInv'
    BY <1>1, <2>2, <2>3, <2>4, LeaveStep
  <2>6. QED
    BY <1>2, <2>2, <2>3, <2>5
    DEF Promises, InputsFedOnce, FailedCallKeepsState, NoEagerAfterLaunch,
        RouteNamesWhatRan
<1>5. QED
  BY <1>3, <1>4

LEMMA RequestIs ==
  ASSUME NEW k \in Requests
  PROVE  /\ k \in [steps : Nat, shape : Shapes \cup {NoShape}, grad : BOOLEAN,
                   t : Nat, strict : BOOLEAN, store : BOOLEAN, v : Memory,
                   vSeq : Memory, init : Memory, final : Memory, seq : Memory]
         /\ k.steps \in Lengths /\ k.shape \in Shapes /\ k.t = 0
         /\ {k.v, k.vSeq, k.init, k.final, k.seq} = {NoTensor}
<1>1. PICK n \in Lengths, s \in Shapes, g, x, w \in BOOLEAN :
        k = Request(n, s, g, x, w)
  BY DEF Requests
<1>2. n \in Nat
  BY NeuronCallAssumption DEF NeuronCallAssumption
<1>3. /\ NoCall \in [steps : Nat, shape : Shapes \cup {NoShape}, grad : BOOLEAN,
                     t : Nat, strict : BOOLEAN, store : BOOLEAN, v : Memory,
                     vSeq : Memory, init : Memory, final : Memory, seq : Memory]
      /\ NoCall.t = 0
      /\ NoCall.v = NoTensor /\ NoCall.vSeq = NoTensor /\ NoCall.init = NoTensor
      /\ NoCall.final = NoTensor /\ NoCall.seq = NoTensor
  BY DEF NoCall, Memory
<1>4. QED
  BY <1>1, <1>2, <1>3 DEF Request

LEMMA BeginIs ==
  ASSUME IInv, NEW k \in Requests, NEW strict, Begin(k, strict)
  PROVE  /\ pc = "idle" /\ call = NoCall
         /\ before'.carried = Carried(heap, v, k.shape)
         /\ before'.carried \in Nat
         /\ before'.steps = k.steps /\ before'.shape = k.shape
         /\ before'.multi = TRUE
         /\ before'.strict = strict /\ before'.store = k.store
         /\ outcome' = "none" /\ ran' = Nothing
         /\ UNCHANGED <<v, vSeq, heap, seen>>
         /\ Promises'
<1>1. pc = "idle" /\ call = NoCall
  BY DEF Begin, IInv, Asked
<1>2. Carried(heap, v, k.shape) \in Nat
  BY CarriedNat, RequestIs
<1>3. QED
  BY <1>1, <1>2
  DEF Begin, Started, Nothing, Promises, InputsFedOnce, FailedCallKeepsState,
      NoEagerAfterLaunch, RouteNamesWhatRan

LEMMA MultiStepTorchStep ==
  ASSUME IInv, MultiStepTorch
  PROVE  IInv'
<1>1. PICK k \in Requests :
        /\ ~k.strict /\ Begin(k, FALSE) /\ call' = k /\ route' = "torch" /\ pc' = "eager"
  BY DEF MultiStepTorch
<1>2. /\ pc = "idle" /\ call = NoCall
      /\ before'.carried = Carried(heap, v, k.shape) /\ before'.carried \in Nat
      /\ before'.steps = k.steps /\ before'.shape = k.shape
      /\ before'.multi = TRUE
      /\ before'.strict = FALSE /\ before'.store = k.store
      /\ outcome' = "none" /\ ran' = Nothing
      /\ UNCHANGED <<v, vSeq, heap, seen>>
      /\ Promises'
  BY <1>1, BeginIs
<1>3. /\ call' \in [steps : Nat, shape : Shapes \cup {NoShape}, grad : BOOLEAN,
                    t : Nat, strict : BOOLEAN, store : BOOLEAN, v : Memory,
                    vSeq : Memory, init : Memory, final : Memory, seq : Memory]
      /\ k.steps \in Lengths /\ k.shape \in Shapes /\ k.t = 0
      /\ {k.v, k.vSeq, k.init, k.final, k.seq} = {NoTensor}
  BY <1>1, RequestIs
<1>4. Tidy' /\ ReadVoltagesKept'
  <2>1. {call.v, call.vSeq, call.init, call.final, call.seq} = {NoTensor}
    BY <1>2 DEF NoCall
  <2>2. QED
    BY <1>1, <1>2, <1>3, <2>1, TidyCall
<1>5. k.steps \in Nat
  BY <1>3, NeuronCallAssumption DEF NeuronCallAssumption
<1>6. Types' /\ Asked' /\ NativeCall'
  BY <1>1, <1>2, <1>3 DEF Types, Asked, NativeCall, Nothing
<1>7. EagerCall'
  BY <1>1, <1>2, <1>3, <1>5 DEF EagerCall, Nothing
<1>8. QED
  BY <1>2, <1>4, <1>6, <1>7 DEF IInv

LEMMA EagerStepStep ==
  ASSUME IInv, EagerStep
  PROVE  IInv'
<1> DEFINE s == call.shape
<1>1. /\ pc = "eager" /\ s \in Shapes /\ call.grad \in BOOLEAN
      /\ call.t < call.steps /\ call.t \in Nat /\ call.steps \in Nat
      /\ {call.v, call.vSeq, call.init, call.final, call.seq} = {NoTensor}
      /\ Carried(heap, v, s) = before.carried + call.t
  BY DEF EagerStep, IInv, Types, Asked, EagerCall
<1>2. PICK m \in Materialized(heap, v, s) :
        LET x == Stepped(m.heap, m.v, call.grad) IN
        /\ v' = x.v
        /\ heap' = Collect(x.heap, {x.v, vSeq} \cup Locals(call))
  BY DEF EagerStep
<1> DEFINE n == Stepped(m.heap, m.v, call.grad)
<1>3. v' = n.v /\ heap' = Collect(n.heap, {n.v, vSeq} \cup Locals(call))
  BY <1>2
<1> HIDE DEF n
<1>4. /\ TypedHeap(n.heap)
      /\ Holds(n.heap, n.v, StepRefs)
      /\ Holds(n.heap, vSeq, SequenceRefs)
      /\ Holds(n.heap, seen.ref, SequenceRefs)
      /\ Contents(n.heap, seen.ref) = Contents(heap, seen.ref)
      /\ Contents(n.heap, n.v) = Potential(s, Carried(heap, v, s) + 1)
  BY <1>1, <1>2, <1>3, StepKeeps DEF n
<1>5. /\ call' = [call EXCEPT !.t = @ + 1] /\ ran' = [ran EXCEPT !.eager = @ + 1]
      /\ UNCHANGED <<vSeq, pc, route, outcome, before, saved, seen>>
  BY DEF EagerStep
<1>6. /\ Types'
      /\ call'.t = call.t + 1 /\ call'.steps = call.steps /\ call'.shape = s
      /\ call'.strict = call.strict /\ call'.store = call.store
      /\ {call'.v, call'.vSeq, call'.init, call'.final, call'.seq} = {NoTensor}
      /\ ran'.native = ran.native
  BY <1>1, <1>5 DEF IInv, Types
<1>7. Tidy' /\ Contents(heap', v') = Contents(n.heap, v')
      /\ Contents(heap', seen'.ref) = Contents(n.heap, seen'.ref)
  <2>1. ({n.v, vSeq} \cup Locals(call)) \ {NoTensor}
          = (({v, vSeq} \cup Locals(call)) \ {NoTensor})'
    BY <1>1, <1>2, <1>3, <1>5, <1>6 DEF Locals
  <2>2. \A r \in {v', call'.v, call'.init, call'.final} : Holds(n.heap, r, StepRefs)
    BY <1>2, <1>3, <1>4, <1>6 DEF Holds
  <2>3. \A r \in {vSeq', call'.vSeq, call'.seq, seen'.ref} :
          Holds(n.heap, r, SequenceRefs)
    BY <1>4, <1>5, <1>6 DEF Holds
  <2>4. QED
    BY <1>2, <1>3, <1>4, <2>1, <2>2, <2>3, TidyCollect
<1>8. Carried(heap', v', s) = before.carried + call'.t
  BY <1>1, <1>2, <1>3, <1>4, <1>6, <1>7 DEF n, Carried, Contents, Potential, IInv, Asked,
     Free, NeuronCallAssumption
<1>9. Contents(heap', v').shape = s
  BY <1>2, <1>3, <1>4, <1>7 DEF Potential
<1>10. Asked' /\ NativeCall'
  BY <1>1, <1>5, <1>6 DEF IInv, Asked, NativeCall
<1>11. EagerCall'
  <2>1. ~ran'.native /\ route' = "torch" /\ ~call'.strict /\ before' = before
    BY <1>1, <1>5, <1>6 DEF IInv, EagerCall
  <2>2. call'.t <= call'.steps
    BY <1>1, <1>6
  <2>3. QED
    BY <1>6, <1>8, <1>9, <2>1, <2>2 DEF EagerCall
<1>12. ReadVoltagesKept'
  BY <1>4, <1>5, <1>7, ReadSeen DEF ReadVoltagesKept
<1>13. Promises'
  BY <1>1, <1>5, <1>6
  DEF IInv, Promises, InputsFedOnce, FailedCallKeepsState, NoEagerAfterLaunch,
      RouteNamesWhatRan, Asked, EagerCall
<1>14. QED
  BY <1>6, <1>7, <1>10, <1>11, <1>12, <1>13 DEF IInv

LEMMA EagerReturnsStep ==
  ASSUME IInv, EagerReturns
  PROVE  IInv'
<1> DEFINE s == call.shape
           n == before.carried + call.steps
<1>1. /\ pc = "eager" /\ s \in Shapes /\ call.t = call.steps /\ call.t > 0
      /\ call.t \in Nat /\ before.carried \in Nat
      /\ Carried(heap, v, s) = n /\ Contents(heap, v).shape = s
      /\ ~ran.native /\ route = "torch"
      /\ before.shape = s /\ before.steps = call.steps /\ before.store = call.store
      /\ UNCHANGED <<route, ran, before, saved, seen>>
  BY NeuronCallAssumption
  DEF EagerReturns, IInv, Types, Asked, EagerCall, NeuronCallAssumption
<1>2. /\ TypedHeap(heap) /\ Holds(heap, v, StepRefs)
      /\ Holds(heap, vSeq, SequenceRefs) /\ Holds(heap, seen.ref, SequenceRefs)
      /\ ran' \in [native : BOOLEAN, eager : Nat]
  BY <1>1 DEF IInv, Tidy, Types
<1>3. Contents(heap, v) = Potential(s, n) /\ heap[v.cell] = Potential(s, n)
  BY <1>1, <1>2, PotentialOf DEF Carried
<1>4. CASE call.store
  <2> DEFINE c == FreshSequence(heap)
             h == [heap EXCEPT ![c] = Sequence(s, heap[v.cell].fed, call.steps)]
  <2>1. Leave("returned", v, Ref(c, FALSE), h)
    BY <1>4 DEF EagerReturns
  <2>2. c \in SequenceCells /\ heap[c] = Free
    BY <1>1, AliveSequences, FreeSequence
  <2> HIDE DEF c
  <2>3. h = [heap EXCEPT ![c] = Sequence(s, n, call.steps)]
    BY <1>3 DEF Potential
  <2> HIDE DEF h
  <2>4. TypedHeap(h) /\ h[c] = Sequence(s, n, call.steps) /\ h[c] # Free
    <3>1. n \in Nat /\ call.steps \in Nat
      BY <1>1
    <3> DEFINE g == [heap EXCEPT ![c] = Sequence(s, n, call.steps)]
    <3>2. TypedHeap(g) /\ g[c] = Sequence(s, n, call.steps)
          /\ Sequence(s, n, call.steps) # Free
      BY <1>1, <1>2, <2>2, <3>1, PutSequence
    <3> HIDE DEF g
    <3>3. h = g
      BY <2>3 DEF g
    <3>4. QED
      BY <3>2, <3>3
  <2>5. Kept(heap, h)
    BY <1>2, <2>2, <2>3 DEF Kept, TypedHeap, Cells
  <2>6. Ref(c, FALSE) \in SequenceRefs /\ Ref(c, FALSE).cell = c
    BY <2>2 DEF Ref, SequenceRefs
  <2>7. /\ Holds(h, Ref(c, FALSE), SequenceRefs)
        /\ Contents(h, Ref(c, FALSE)) = Sequence(s, n, call.steps)
    BY <2>4, <2>6, RefTypes DEF Holds, Contents
  <2>8. /\ Holds(h, v, StepRefs) /\ Contents(h, v) = Potential(s, n)
        /\ Holds(h, seen.ref, SequenceRefs)
        /\ Contents(h, seen.ref) = Contents(heap, seen.ref)
    BY <1>2, <1>3, <2>5, HoldsKept
  <2>9. /\ outcome' = "returned"
        /\ Contents(heap', v') = Potential(s, n)
        /\ Contents(heap', vSeq') = Sequence(s, n, call.steps)
        /\ Promises' => IInv'
    BY <1>1, <1>2, <2>1, <2>4, <2>7, <2>8, LeaveStep
  <2>10. QED
    BY <1>1, <2>9
    DEF IInv, Promises, InputsFedOnce, FailedCallKeepsState, NoEagerAfterLaunch,
        RouteNamesWhatRan
<1>5. CASE ~call.store
  <2>1. Leave("returned", v, vSeq, heap)
    BY <1>5 DEF EagerReturns
  <2>2. /\ outcome' = "returned"
        /\ Contents(heap', v') = Potential(s, n)
        /\ Promises' => IInv'
    BY <1>1, <1>2, <1>3, <2>1, LeaveStep
  <2>3. QED
    BY <1>1, <1>5, <2>2
    DEF IInv, Promises, InputsFedOnce, FailedCallKeepsState, NoEagerAfterLaunch,
        RouteNamesWhatRan
<1>6. QED
  BY <1>4, <1>5

LEMMA EagerRaisesStep ==
  ASSUME IInv, EagerRaises
  PROVE  IInv'
<1>1. /\ pc = "eager" /\ call.shape \in Shapes /\ call.grad \in BOOLEAN
      /\ ran' = [ran EXCEPT !.eager = @ + 1]
      /\ UNCHANGED <<before, saved, seen>>
      /\ ran \in [native : BOOLEAN, eager : Nat]
      /\ ~ran.native /\ ~before.strict
  BY DEF EagerRaises, IInv, Types, Asked, EagerCall
<1>2. PICK m \in Materialized(heap, v, call.shape) :
        \E x \in {m, Stepped(m.heap, m.v, call.grad)} :
          Leave("raised", x.v, vSeq, x.heap)
  BY DEF EagerRaises
<1>3. PICK x \in {m, Stepped(m.heap, m.v, call.grad)} :
        Leave("raised", x.v, vSeq, x.heap)
  BY <1>2
<1>4. /\ TypedHeap(x.heap)
      /\ Holds(x.heap, x.v, StepRefs)
      /\ Holds(x.heap, vSeq, SequenceRefs)
      /\ Holds(x.heap, seen.ref, SequenceRefs)
      /\ Contents(x.heap, seen.ref) = Contents(heap, seen.ref)
  BY <1>1, StepKeeps
<1>5. ran' \in [native : BOOLEAN, eager : Nat] /\ ran'.eager > 0 /\ ~ran'.native
  BY <1>1
<1>6. outcome' = "raised" /\ (Promises' => IInv')
  BY <1>1, <1>3, <1>4, <1>5, LeaveStep
<1>7. QED
  BY <1>1, <1>5, <1>6
  DEF Promises, InputsFedOnce, FailedCallKeepsState, NoEagerAfterLaunch,
      RouteNamesWhatRan

-----------------------------------------------------------------------------
(* Forwards under the native backend.                                      *)

LEMMA MultiStepAsPyStep ==
  ASSUME IInv, MultiStepAsPy
  PROVE  IInv'
<1>1. PICK k \in Requests :
        /\ Begin(k, k.strict)
        /\ call' = [k EXCEPT !.v = v, !.vSeq = IF k.store THEN vSeq ELSE NoTensor]
        /\ pc' = "prepare" /\ saved' = Memories
  BY DEF MultiStepAsPy
<1>2. /\ pc = "idle" /\ call = NoCall
      /\ before'.carried = Carried(heap, v, k.shape) /\ before'.carried \in Nat
      /\ before'.steps = k.steps /\ before'.shape = k.shape
      /\ before'.multi = TRUE
      /\ before'.strict = k.strict /\ before'.store = k.store
      /\ outcome' = "none" /\ ran' = Nothing
      /\ UNCHANGED <<v, vSeq, heap, seen>>
      /\ Promises'
  BY <1>1, BeginIs
<1>3. v \in Memory /\ vSeq \in Memory /\ NoTensor \in Memory
  BY HoldsType DEF IInv, Tidy, Memory
<1>4. /\ call' \in [steps : Nat, shape : Shapes \cup {NoShape}, grad : BOOLEAN,
                    t : Nat, strict : BOOLEAN, store : BOOLEAN, v : Memory,
                    vSeq : Memory, init : Memory, final : Memory, seq : Memory]
      /\ call'.steps = k.steps /\ call'.shape = k.shape /\ call'.t = 0
      /\ call'.strict = k.strict /\ call'.store = k.store
      /\ call'.v = v /\ call'.vSeq = IF k.store THEN vSeq ELSE NoTensor
      /\ {call'.init, call'.final, call'.seq} = {NoTensor}
      /\ k.steps \in Lengths /\ k.shape \in Shapes
  BY <1>1, <1>3, RequestIs
<1>5. Tidy' /\ ReadVoltagesKept'
  <2>1. {call.v, call.vSeq, call.init, call.final, call.seq} = {NoTensor}
    BY <1>2 DEF NoCall
  <2>2. QED
    BY <1>1, <1>2, <1>4, <2>1, TidyCall
<1>6. Types' /\ Asked' /\ EagerCall'
  BY <1>1, <1>2, <1>4 DEF Types, Asked, EagerCall, Nothing
<1>7. NativeCall'
  BY <1>1, <1>2, <1>4 DEF NativeCall, Untouched, Memories, Nothing
<1>8. QED
  BY <1>2, <1>5, <1>6, <1>7 DEF IInv

(* A native call that ends without a result: the memories are those it     *)
(* found, or the exception escaped the handler.                            *)
LEMMA NativeRaises ==
  ASSUME IInv, pc \in {"prepare", "clone", "route", "validate"},
         NEW o \in {"raised", "escaped"}, NEW n \in {v, call.v},
         o = "raised" => n = call.v, Leave(o, n, vSeq, heap),
         UNCHANGED <<ran, before, saved, seen>>
  PROVE  IInv'
<1>1. /\ TypedHeap(heap) /\ Holds(heap, n, StepRefs)
      /\ Holds(heap, vSeq, SequenceRefs) /\ Holds(heap, seen.ref, SequenceRefs)
      /\ ran' \in [native : BOOLEAN, eager : Nat]
  BY DEF IInv, Tidy, Types
<1>2. /\ v' = n /\ vSeq' = vSeq /\ outcome' = o
      /\ Contents(heap', v') = Contents(heap, n)
      /\ Contents(heap', vSeq') = Contents(heap, vSeq)
      /\ Promises' => IInv'
  BY <1>1, LeaveStep
<1>3. Untouched /\ ran'.eager = 0
  BY DEF IInv, NativeCall
<1>4. QED
  BY <1>2, <1>3
  DEF Promises, InputsFedOnce, FailedCallKeepsState, NoEagerAfterLaunch,
      RouteNamesWhatRan, Untouched

LEMMA RaiseSteps ==
  ASSUME IInv, RequireMasterParameter \/ RaiseAndRestore \/ RaiseUnhandled
  PROVE  IInv'
<1>1. CASE RequireMasterParameter
  <2>1. pc = "prepare" /\ v = call.v
    BY <1>1 DEF RequireMasterParameter, IInv, NativeCall
  <2>2. QED
    BY <1>1, <2>1, NativeRaises DEF RequireMasterParameter
<1>2. CASE RaiseAndRestore
  <2>1. pc \in {"route", "validate"} /\ call.vSeq = IF call.store THEN vSeq ELSE NoTensor
    BY <1>2 DEF RaiseAndRestore, IInv, NativeCall, Untouched
  <2>2. Leave("raised", call.v, vSeq, heap) /\ UNCHANGED <<ran, before, saved, seen>>
    BY <1>2, <2>1 DEF RaiseAndRestore
  <2>3. QED
    BY <2>1, <2>2, NativeRaises
<1>3. CASE RaiseUnhandled
  BY <1>3, NativeRaises DEF RaiseUnhandled
<1>4. QED
  BY <1>1, <1>2, <1>3

(* Everything allocated in heap h still is in heap g, voltages unchanged.  *)
Grown(h, g) ==
  \A d \in Cells : h[d] # Free =>
    g[d] # Free /\ (d \in SequenceCells => g[d] = h[d])

LEMMA KeptIsGrown ==
  ASSUME NEW h, NEW g, Kept(h, g)
  PROVE  Grown(h, g)
  BY DEF Kept, Grown

(* A step of the call that allocates tensors and collects none: what was   *)
(* reachable still is, through the memories or the locals of the call.     *)
LEMMA TidyGrow ==
  ASSUME IInv, NEW h, TypedHeap(h), Grown(heap, h), heap' = h,
         UNCHANGED <<vSeq, seen>>,
         call'.v = call.v, call'.vSeq = call.vSeq,
         Holds(h, v', StepRefs), Holds(h, call'.init, StepRefs),
         Holds(h, call'.final, StepRefs), Holds(h, call'.seq, SequenceRefs),
         v' = v \/ v = call.v,
         call.init \in {call'.init, NoTensor}, call.final \in {call'.final, NoTensor},
         call.seq \in {call'.seq, NoTensor},
         \A d \in Cells : heap[d] = Free /\ h[d] # Free =>
           \E r \in {v', call'.init, call'.final, call'.seq} \ {NoTensor} : r.cell = d
  PROVE  Tidy' /\ ReadVoltagesKept'
<1>1. /\ Holds(h, call.v, StepRefs) /\ Holds(h, vSeq, SequenceRefs)
      /\ Holds(h, call.vSeq, SequenceRefs)
      /\ Holds(h, seen.ref, SequenceRefs)
      /\ Contents(h, seen.ref) = Contents(heap, seen.ref)
  <2>1. /\ Holds(heap, call.v, StepRefs) /\ Holds(heap, vSeq, SequenceRefs)
        /\ Holds(heap, call.vSeq, SequenceRefs)
        /\ Holds(heap, seen.ref, SequenceRefs)
    BY DEF IInv, Tidy
  <2>2. ASSUME NEW r, NEW refs \in {StepRefs, SequenceRefs}, Holds(heap, r, refs)
        PROVE  Holds(h, r, refs)
    BY <2>2, RefTypes DEF Holds, Grown, Refs
  <2>3. Contents(h, seen.ref) = Contents(heap, seen.ref)
    BY <2>1 DEF Holds, Contents, Grown, SequenceRefs, Cells
  <2>4. QED
    BY <2>1, <2>2, <2>3
<1>2. {v, vSeq} \cup Locals(call) \subseteq ({v, vSeq} \cup Locals(call))' \cup {NoTensor}
  BY DEF Locals
<1>3. ASSUME NEW d \in Cells, h[d] # Free
      PROVE  \E r \in ({v, vSeq} \cup Locals(call))' \ {NoTensor} : r.cell = d
  <2>1. CASE heap[d] = Free
    BY <1>3, <2>1 DEF Locals
  <2>2. CASE heap[d] # Free
    BY <1>2, <2>2 DEF IInv, Tidy, Reached
  <2>3. QED
    BY <2>1, <2>2
<1>4. Reached(heap, {v, vSeq} \cup Locals(call))'
  BY <1>3 DEF Reached
<1>5. QED
  BY <1>1, <1>4 DEF IInv, Tidy, ReadVoltagesKept

(* What the tensors hold that the neuron found.                            *)
LEMMA UntouchedKept ==
  ASSUME IInv, NEW h, Kept(heap, h), heap' = h, Untouched,
         call'.v = call.v, call'.vSeq = call.vSeq, call'.store = call.store,
         UNCHANGED <<vSeq, saved>>
  PROVE  Untouched'
<1>1. Contents(h, call.v) = Contents(heap, call.v)
      /\ Contents(h, vSeq) = Contents(heap, vSeq)
  BY HoldsKept DEF IInv, Tidy
<1>2. QED
  BY <1>1 DEF Untouched

LEMMA MaterializeStep ==
  ASSUME IInv, Materialize
  PROVE  IInv'
<1> DEFINE s == call.shape
<1>1. /\ pc = "prepare" /\ s \in Shapes /\ v = call.v /\ Untouched
      /\ {call.init, call.final, call.seq} = {NoTensor}
      /\ Carried(heap, v, s) = before.carried /\ before.carried \in Nat
      /\ call.t = 0 /\ ran.eager = 0 /\ ~ran.native
      /\ outcome = "none" /\ pc' = "clone"
      /\ UNCHANGED <<vSeq, call, route, outcome, ran, before, saved, seen>>
  BY DEF Materialize, IInv, Asked, NativeCall
<1>2. PICK m \in Materialized(heap, v, s) : v' = m.v /\ heap' = m.heap
  BY DEF Materialize
<1>3. /\ TypedHeap(m.heap) /\ Kept(heap, m.heap)
      /\ Grows(heap, m.heap, m.v.cell)
      /\ Holds(m.heap, m.v, StepRefs) /\ m.v # NoTensor
      /\ Contents(m.heap, m.v) = Potential(s, before.carried)
  BY <1>1, MaterializedNow, Allocated, RefTypes
<1>4. Tidy' /\ ReadVoltagesKept'
  <2>1. \A d \in Cells : heap[d] = Free /\ m.heap[d] # Free => m.v.cell = d
    BY <1>3 DEF Grows
  <2>2. Holds(m.heap, NoTensor, StepRefs) /\ Holds(m.heap, NoTensor, SequenceRefs)
    BY DEF Holds
  <2>3. QED
    BY <1>1, <1>2, <1>3, <2>1, <2>2, KeptIsGrown, TidyGrow
<1>5. Untouched'
  BY <1>1, <1>2, <1>3, UntouchedKept
<1>6. NativeCall'
  BY <1>1, <1>2, <1>3, <1>5 DEF NativeCall
<1>7. Types' /\ Asked' /\ EagerCall' /\ Promises'
  BY <1>1
  DEF IInv, Types, Asked, EagerCall, Promises, InputsFedOnce, FailedCallKeepsState,
      NoEagerAfterLaunch, RouteNamesWhatRan
<1>8. QED
  BY <1>4, <1>6, <1>7 DEF IInv

LEMMA CloneStep ==
  ASSUME IInv, Clone
  PROVE  IInv'
<1> DEFINE s == call.shape
           c == Fresh(heap)
           h == [heap EXCEPT ![c] = heap[v.cell]]
<1>1. /\ pc = "clone" /\ s \in Shapes /\ Untouched
      /\ Contents(heap, v) = Potential(s, before.carried) /\ before.carried \in Nat
      /\ {call.init, call.final, call.seq} = {NoTensor}
      /\ call.t = 0 /\ ran.eager = 0 /\ ~ran.native
      /\ outcome = "none" /\ pc' = "route"
      /\ UNCHANGED <<v, vSeq, route, outcome, ran, before, saved, seen>>
  BY DEF Clone, IInv, Asked, NativeCall
<1>2. TypedHeap(heap) /\ Holds(heap, v, StepRefs) /\ Holds(heap, call.v, StepRefs)
  BY DEF IInv, Tidy
<1>3. v \in StepRefs /\ heap[v.cell] = Potential(s, before.carried)
  <2>1. Contents(heap, v).shape = s
    BY <1>1 DEF Potential
  <2>2. v \in StepRefs /\ Contents(heap, v) = heap[v.cell]
    BY <1>1, <1>2, <2>1, PotentialOf, RefTypes DEF Contents
  <2>3. QED
    BY <1>1, <2>2
<1>4. c \in StepCells /\ heap[c] = Free
  BY <1>1, AliveSteps, FreeStep
<1>5. call' = [call EXCEPT !.init = Ref(c, v.grad)] /\ heap' = h
  BY DEF Clone, NativeInitialState
<1> HIDE DEF c
<1>6. h = [heap EXCEPT ![c] = Potential(s, before.carried)]
  BY <1>3
<1> HIDE DEF h
<1>7. TypedHeap(h) /\ h[c] = Potential(s, before.carried)
  <2> DEFINE g == [heap EXCEPT ![c] = Potential(s, before.carried)]
  <2>1. TypedHeap(g) /\ g[c] = Potential(s, before.carried)
    BY <1>1, <1>2, <1>4, PutStep
  <2> HIDE DEF g
  <2>2. h = g
    BY <1>6 DEF g
  <2>3. QED
    BY <2>1, <2>2
<1>8. Kept(heap, h) /\ \A d \in Cells \ {c} : h[d] = heap[d]
  BY <1>2, <1>4, <1>6 DEF Kept, TypedHeap, Cells
<1>9. Ref(c, v.grad) \in StepRefs /\ Ref(c, v.grad).cell = c
      /\ Ref(c, v.grad) \in Memory /\ Ref(c, v.grad) # NoTensor
  BY <1>3, <1>4, RefTypes DEF Ref, StepRefs, Memory
<1>10. /\ Types'
       /\ call'.init = Ref(c, v.grad)
       /\ call'.v = call.v /\ call'.vSeq = call.vSeq /\ call'.final = call.final
       /\ call'.seq = call.seq /\ call'.t = call.t /\ call'.steps = call.steps
       /\ call'.shape = s /\ call'.strict = call.strict /\ call'.store = call.store
  BY <1>1, <1>5, <1>9 DEF IInv, Types
<1>11. /\ Holds(h, call'.init, StepRefs)
       /\ Contents(h, call'.init) = Potential(s, before.carried)
  BY <1>1, <1>7, <1>9, <1>10, Allocated
<1>12. Holds(h, v, StepRefs) /\ Contents(h, v) = Contents(heap, v)
  BY <1>2, <1>8, HoldsKept
<1>13. Tidy' /\ ReadVoltagesKept'
  <2>1. \A d \in Cells : heap[d] = Free /\ h[d] # Free => call'.init.cell = d
    BY <1>8, <1>9, <1>10
  <2>2. Holds(h, NoTensor, StepRefs) /\ Holds(h, NoTensor, SequenceRefs)
    BY DEF Holds
  <2>3. QED
    BY <1>1, <1>5, <1>7, <1>8, <1>9, <1>10, <1>11, <1>12, <2>1, <2>2, KeptIsGrown, TidyGrow
<1>14. Untouched'
  BY <1>1, <1>5, <1>8, <1>10, UntouchedKept
<1>15. /\ call'.init.cell # v.cell
       /\ call.v # NoTensor => call'.init.cell # call.v.cell
  <2>1. heap[v.cell] # Free
    BY <1>2, <1>3, RefTypes DEF Holds
  <2>2. QED
    BY <1>2, <1>4, <1>9, <1>10, <2>1 DEF Holds
<1>16. NativeCall'
  BY <1>1, <1>5, <1>9, <1>10, <1>11, <1>12, <1>14, <1>15 DEF NativeCall
<1>17. Asked' /\ EagerCall' /\ Promises'
  BY <1>1, <1>10
  DEF IInv, Asked, EagerCall, Promises, InputsFedOnce, FailedCallKeepsState,
      NoEagerAfterLaunch, RouteNamesWhatRan
<1>18. QED
  BY <1>10, <1>13, <1>16, <1>17 DEF IInv

LEMMA FallBackStep ==
  ASSUME IInv, FallBack
  PROVE  IInv'
<1> DEFINE s == call.shape
<1>1. /\ pc = "route" /\ s \in Shapes /\ ~call.strict
      /\ Contents(heap, v) = Potential(s, before.carried) /\ before.carried \in Nat
      /\ call.final = NoTensor /\ call.seq = NoTensor
      /\ call.t = 0 /\ call.steps \in Nat /\ ran.eager = 0 /\ ~ran.native
      /\ outcome = "none"
  BY DEF FallBack, IInv, Types, Asked, NativeCall
<1>2. /\ route' = "torch" /\ pc' = "eager"
      /\ call' = [call EXCEPT !.v = NoTensor, !.vSeq = NoTensor, !.init = NoTensor]
      /\ heap' = Collect(heap, {v, vSeq} \cup Locals(call'))
      /\ UNCHANGED <<v, vSeq, outcome, ran, before, seen>>
  BY DEF FallBack
<1>3. /\ Types'
      /\ {call'.v, call'.vSeq, call'.init, call'.final, call'.seq} = {NoTensor}
      /\ call'.t = 0 /\ call'.steps = call.steps /\ call'.shape = s
      /\ call'.strict = call.strict /\ call'.store = call.store
  BY <1>1, <1>2 DEF IInv, Types, Memory
<1>4. Tidy' /\ Contents(heap', v') = Contents(heap, v)
      /\ Contents(heap', seen'.ref) = Contents(heap, seen.ref)
  <2>1. /\ TypedHeap(heap) /\ Holds(heap, v, StepRefs)
        /\ Holds(heap, vSeq, SequenceRefs) /\ Holds(heap, seen.ref, SequenceRefs)
    BY DEF IInv, Tidy
  <2>2. \A r \in {v', call'.v, call'.init, call'.final} : Holds(heap, r, StepRefs)
    BY <1>2, <1>3, <2>1 DEF Holds
  <2>3. \A r \in {vSeq', call'.vSeq, call'.seq, seen'.ref} :
          Holds(heap, r, SequenceRefs)
    BY <1>2, <1>3, <2>1 DEF Holds
  <2>4. ({v, vSeq} \cup Locals(call')) \ {NoTensor}
          = (({v, vSeq} \cup Locals(call)) \ {NoTensor})'
    BY <1>2 DEF Locals
  <2>5. QED
    BY <1>2, <2>1, <2>2, <2>3, <2>4, TidyCollect
<1>5. Carried(heap', v', s) = before.carried
  <2>1. Contents(heap', v') = Potential(s, before.carried)
    BY <1>1, <1>4
  <2>2. Potential(s, before.carried).shape = s
        /\ Potential(s, before.carried).fed = before.carried /\ s # NoShape
    BY <1>1, NeuronCallAssumption DEF Potential, NeuronCallAssumption
  <2>3. v' # NoTensor
    BY <2>1, <2>2 DEF Contents, Free
  <2>4. QED
    BY <2>1, <2>2, <2>3 DEF Carried, Contents
<1>6. ReadVoltagesKept'
  BY <1>2, <1>4, ReadSeen DEF ReadVoltagesKept
<1>7. EagerCall'
  BY <1>1, <1>2, <1>3, <1>5 DEF EagerCall
<1>8. Asked' /\ NativeCall' /\ Promises'
  BY <1>1, <1>2, <1>3
  DEF IInv, Asked, NativeCall, Promises, InputsFedOnce, FailedCallKeepsState,
      NoEagerAfterLaunch, RouteNamesWhatRan
<1>9. QED
  BY <1>3, <1>4, <1>6, <1>7, <1>8 DEF IInv

(* Heap h with tensor c holding x.                                         *)
Put(h, c, x) == [h EXCEPT ![c] = x]

LEMMA PutIs ==
  ASSUME NEW h, TypedHeap(h), NEW c \in Cells, NEW x \in Tensors,
         c \in StepCells => x.rows = 0
  PROVE  /\ TypedHeap(Put(h, c, x)) /\ Put(h, c, x)[c] = x
         /\ \A e \in Cells \ {c} : Put(h, c, x)[e] = h[e]
  BY DEF TypedHeap, Put, Cells

LEMMA Tensed ==
  ASSUME NEW s \in Shapes, NEW n \in Nat, NEW t \in Nat
  PROVE  /\ Potential(s, n) \in Tensors /\ Potential(s, n) # Free
         /\ Potential(s, n).rows = 0
         /\ Sequence(s, n, t) \in Tensors /\ Sequence(s, n, t) # Free
  BY NeuronCallAssumption
  DEF NeuronCallAssumption, Potential, Sequence, Tensors, Free

(* Where the kernel puts its results.                                      *)
LEMMA ResultIs ==
  ASSUME IInv, pc = "route", NEW n \in Nat, NEW t \in Nat, NEW s \in Shapes,
         NEW c, c = Fresh(heap), NEW h1, h1 = Put(heap, c, Potential(s, n)),
         NEW d, d = FreshSequence(h1), NEW h2, h2 = Put(h1, d, Sequence(s, n, t))
  PROVE  /\ c \in StepCells /\ heap[c] = Free
         /\ TypedHeap(h1) /\ h1[c] = Potential(s, n) /\ h1[c] # Free
         /\ \A e \in Cells \ {c} : h1[e] = heap[e]
         /\ d \in SequenceCells /\ heap[d] = Free /\ c # d
         /\ TypedHeap(h2) /\ h2[c] = Potential(s, n) /\ h2[c] # Free
         /\ h2[d] = Sequence(s, n, t) /\ h2[d] # Free
         /\ \A e \in Cells \ {c, d} : h2[e] = heap[e]
<1>1. TypedHeap(heap)
  BY DEF IInv, Tidy
<1>2. c \in StepCells /\ heap[c] = Free
  BY AliveSteps, FreeStep
<1>3. /\ TypedHeap(h1) /\ h1[c] = Potential(s, n) /\ h1[c] # Free
      /\ \A e \in Cells \ {c} : h1[e] = heap[e]
  BY <1>1, <1>2, PutIs, Tensed DEF Cells
<1>4. AliveVoltages(h1, vSeq.cell, seen.ref.cell)
  BY <1>2, <1>3, AliveSequences, NeuronCallAssumption
  DEF AliveVoltages, Cells, NeuronCallAssumption
<1>5. d \in SequenceCells /\ d \notin StepCells /\ h1[d] = Free
  BY <1>4, FreeSequence, NeuronCallAssumption DEF NeuronCallAssumption
<1>6. c # d /\ c \in Cells /\ d \in Cells
  BY <1>2, <1>5, NeuronCallAssumption DEF Cells, NeuronCallAssumption
<1>7. /\ TypedHeap(h2) /\ h2[d] = Sequence(s, n, t) /\ h2[d] # Free
      /\ \A e \in Cells \ {d} : h2[e] = h1[e]
  <2>1. TypedHeap(h1) /\ d \in Cells /\ d \notin StepCells
    BY <1>3, <1>5, <1>6
  <2>2. Sequence(s, n, t) \in Tensors /\ Sequence(s, n, t) # Free
    BY Tensed
  <2> DEFINE x == Sequence(s, n, t)
  <2> HIDE DEF x
  <2>3. /\ TypedHeap(Put(h1, d, x)) /\ Put(h1, d, x)[d] = x
        /\ \A e \in Cells \ {d} : Put(h1, d, x)[e] = h1[e]
    BY <2>1, <2>2, PutIs DEF x
  <2>4. QED
    BY <2>2, <2>3 DEF x
<1>8. heap[d] = Free /\ h2[c] = h1[c]
  BY <1>3, <1>5, <1>6, <1>7
<1>9. \A e \in Cells \ {c, d} : h2[e] = heap[e]
  BY <1>3, <1>7
<1>10. QED
  BY <1>2, <1>3, <1>5, <1>6, <1>7, <1>8, <1>9

(* The kernel's result is put in new tensors, and all it may overwrite is  *)
(* the clone, which is neither v nor in the snapshot.                      *)
LEMMA LaunchStep ==
  ASSUME IInv, Launch
  PROVE  IInv'
<1> DEFINE s == call.shape
           i == call.init.cell
           n == heap[i].fed + call.steps
           c == Fresh(heap)
           h1 == [heap EXCEPT ![c] = Potential(s, n)]
           d == FreshSequence(h1)
           h2 == [h1 EXCEPT ![d] = Sequence(s, n, call.steps)]
           h3 == IF call.store THEN h2 ELSE h1
           total == before.carried + call.steps
<1>1. /\ pc = "route" /\ s \in Shapes /\ Untouched
      /\ before.carried \in Nat /\ call.steps \in Nat
      /\ Contents(heap, call.init) = Potential(s, before.carried)
      /\ call.init # NoTensor
      /\ v # NoTensor => i # v.cell
      /\ call.v # NoTensor => i # call.v.cell
      /\ {call.final, call.seq} = {NoTensor}
      /\ call.t = 0 /\ ran.eager = 0
      /\ outcome = "none" /\ pc' = "validate"
      /\ ran' = [ran EXCEPT !.native = TRUE]
      /\ UNCHANGED <<v, vSeq, route, outcome, before, saved, seen>>
  BY DEF Launch, IInv, Types, Asked, NativeCall
<1>2. /\ TypedHeap(heap) /\ Holds(heap, v, StepRefs) /\ Holds(heap, call.v, StepRefs)
      /\ Holds(heap, vSeq, SequenceRefs) /\ Holds(heap, call.init, StepRefs)
  BY DEF IInv, Tidy
<1>3. i \in StepCells /\ i \in Cells /\ i \notin SequenceCells /\ heap[i] # Free
      /\ heap[i] = Potential(s, before.carried)
  BY <1>1, <1>2, NeuronCallAssumption
  DEF Holds, StepRefs, Contents, Cells, NeuronCallAssumption
<1>4. n = total /\ n \in Nat
  BY <1>1, <1>3 DEF Potential
<1>5. /\ c \in StepCells /\ heap[c] = Free
      /\ TypedHeap(h1) /\ h1[c] = Potential(s, n) /\ h1[c] # Free
      /\ \A e \in Cells \ {c} : h1[e] = heap[e]
      /\ d \in SequenceCells /\ heap[d] = Free /\ c # d
      /\ TypedHeap(h2) /\ h2[c] = Potential(s, n) /\ h2[c] # Free
      /\ h2[d] = Sequence(s, n, call.steps) /\ h2[d] # Free
      /\ \A e \in Cells \ {c, d} : h2[e] = heap[e]
  <2>1. h1 = Put(heap, c, Potential(s, n)) /\ h2 = Put(h1, d, Sequence(s, n, call.steps))
    BY DEF Put
  <2> HIDE DEF n, h1, h2
  <2>2. c = Fresh(heap) /\ d = FreshSequence(h1)
    OBVIOUS
  <2> HIDE DEF c, d
  <2>3. QED
    BY <1>1, <1>4, <2>1, <2>2, ResultIs
<1>6. /\ call' = [call EXCEPT !.final = Ref(c, call.grad),
                             !.seq = IF call.store THEN Ref(d, FALSE) ELSE NoTensor]
      /\ heap' \in {h3, [h3 EXCEPT ![i] = Potential(s, MaxFed + 1)]}
  BY DEF Launch
<1> HIDE DEF n, c, h1, d, h2
<1>7. /\ TypedHeap(h3) /\ h3[c] = Potential(s, n) /\ h3[c] # Free
      /\ call.store => h3[d] = Sequence(s, n, call.steps) /\ h3[d] # Free
      /\ \A e \in Cells \ {c, d} : h3[e] = heap[e]
      /\ ~call.store => h3[d] = heap[d]
  BY <1>5 DEF Cells
<1> HIDE DEF h3, i
<1>8. /\ TypedHeap(heap') /\ heap'[i] # Free
      /\ \A e \in Cells \ {i} : heap'[e] = h3[e]
  <2>1. i # c /\ i # d
    BY <1>3, <1>5
  <2>2. CASE heap' = h3
    BY <1>3, <1>7, <2>1, <2>2
  <2>3. CASE heap' = Put(h3, i, Potential(s, MaxFed + 1))
    <3>1. MaxFed + 1 \in Nat
      BY NeuronCallAssumption DEF NeuronCallAssumption
    <3>2. Potential(s, MaxFed + 1) \in Tensors /\ Potential(s, MaxFed + 1) # Free
          /\ Potential(s, MaxFed + 1).rows = 0
      BY <1>1, <3>1, Tensed
    <3> DEFINE x == Potential(s, MaxFed + 1)
    <3> HIDE DEF x
    <3>3. /\ TypedHeap(Put(h3, i, x)) /\ Put(h3, i, x)[i] = x
          /\ \A e \in Cells \ {i} : Put(h3, i, x)[e] = h3[e]
      BY <1>3, <1>7, <3>2, PutIs DEF x
    <3>4. QED
      BY <2>3, <3>2, <3>3 DEF x
  <2>4. QED
    BY <1>6, <2>2, <2>3 DEF Put
<1>9. i # c /\ i # d /\ c \in Cells /\ d \in Cells
  BY <1>3, <1>5 DEF Cells
<1>10. /\ heap'[c] = Potential(s, n) /\ heap'[c] # Free
       /\ call.store => heap'[d] = Sequence(s, n, call.steps) /\ heap'[d] # Free
       /\ ~call.store => heap'[d] = Free
       /\ \A e \in Cells \ {c, d, i} : heap'[e] = heap[e]
  BY <1>5, <1>7, <1>8, <1>9
<1>11. Grown(heap, heap')
  BY <1>3, <1>5, <1>8, <1>10 DEF Grown
<1>12. /\ Ref(c, call.grad) \in StepRefs /\ Ref(c, call.grad).cell = c
       /\ Ref(d, FALSE) \in SequenceRefs /\ Ref(d, FALSE).cell = d
       /\ Ref(c, call.grad) # NoTensor /\ Ref(d, FALSE) # NoTensor
       /\ Ref(c, call.grad) \in Memory /\ Ref(d, FALSE) \in Memory
       /\ NoTensor \in Memory
  <2>1. call.grad \in BOOLEAN
    BY DEF IInv, Types
  <2>2. Ref(c, call.grad) \in StepRefs /\ Ref(c, call.grad).cell = c
    BY <1>5, <2>1 DEF Ref, StepRefs
  <2>3. Ref(d, FALSE) \in SequenceRefs /\ Ref(d, FALSE).cell = d
    BY <1>5 DEF Ref, SequenceRefs
  <2>4. QED
    BY <2>2, <2>3, RefTypes DEF Memory
<1>13. /\ Types'
       /\ call'.final = Ref(c, call.grad)
       /\ call'.seq = IF call.store THEN Ref(d, FALSE) ELSE NoTensor
       /\ call'.v = call.v /\ call'.vSeq = call.vSeq /\ call'.init = call.init
       /\ call'.t = call.t /\ call'.steps = call.steps
       /\ call'.shape = s /\ call'.strict = call.strict /\ call'.store = call.store
       /\ ran'.native = TRUE /\ ran'.eager = ran.eager
  BY <1>1, <1>6, <1>12 DEF IInv, Types
<1>14. /\ Holds(heap', call'.final, StepRefs) /\ Holds(heap', call'.seq, SequenceRefs)
       /\ Contents(heap', call'.final) = Potential(s, n)
       /\ call.store => Contents(heap', call'.seq) = Sequence(s, n, call.steps)
  BY <1>10, <1>12, <1>13 DEF Holds, Contents
<1>15. ASSUME NEW r, Holds(heap, r, StepRefs), r # NoTensor => r.cell # i
       PROVE  Holds(heap', r, StepRefs) /\ Contents(heap', r) = Contents(heap, r)
  BY <1>5, <1>10, <1>15 DEF Holds, Contents, StepRefs, Cells
<1>16. Holds(heap', call'.init, StepRefs)
  BY <1>2, <1>8, <1>13 DEF Holds, i
<1>17. Contents(heap', vSeq) = Contents(heap, vSeq)
  BY <1>2, <1>3, <1>5, <1>10 DEF Holds, Contents, SequenceRefs, Cells
<1>18. Tidy' /\ ReadVoltagesKept'
  <2>1. \A e \in Cells : heap[e] = Free /\ heap'[e] # Free =>
          \E r \in {v', call'.init, call'.final, call'.seq} \ {NoTensor} : r.cell = e
    BY <1>3, <1>10, <1>12, <1>13
  <2>2. Holds(heap', v', StepRefs)
    BY <1>1, <1>2, <1>15 DEF i
  <2>3. call.init \in {call'.init, NoTensor} /\ call.final \in {call'.final, NoTensor}
        /\ call.seq \in {call'.seq, NoTensor}
    BY <1>1, <1>13
  <2>4. QED
    BY <1>1, <1>8, <1>11, <1>13, <1>14, <1>16, <2>1, <2>2, <2>3, TidyGrow
<1>19. Untouched'
  BY <1>1, <1>2, <1>13, <1>15, <1>17 DEF Untouched, i
<1>20. NativeCall'
  BY <1>1, <1>4, <1>13, <1>14, <1>19 DEF NativeCall, i
<1>21. Asked' /\ EagerCall' /\ Promises'
  BY <1>1, <1>13
  DEF IInv, Asked, EagerCall, Promises, InputsFedOnce, FailedCallKeepsState,
      NoEagerAfterLaunch, RouteNamesWhatRan
<1>22. QED
  BY <1>13, <1>18, <1>20, <1>21 DEF IInv

LEMMA CommitStep ==
  ASSUME IInv, Commit
  PROVE  IInv'
<1> DEFINE w == IF call.store THEN call.seq ELSE vSeq
           total == before.carried + call.steps
<1>1. /\ pc = "validate" /\ Leave("returned", call.final, w, heap)
      /\ route' = "native" /\ UNCHANGED <<ran, before, seen>>
      /\ before.steps = call.steps /\ before.shape = call.shape
      /\ before.store = call.store
      /\ Contents(heap, call.final) = Potential(call.shape, total)
      /\ call.store =>
           Contents(heap, call.seq) = Sequence(call.shape, total, call.steps)
      /\ ran.native /\ ran.eager = 0
  BY DEF Commit, IInv, Asked, NativeCall
<1>2. /\ TypedHeap(heap) /\ Holds(heap, call.final, StepRefs)
      /\ Holds(heap, w, SequenceRefs) /\ Holds(heap, seen.ref, SequenceRefs)
      /\ ran' \in [native : BOOLEAN, eager : Nat]
  BY <1>1 DEF IInv, Tidy, Types
<1>3. /\ v' = call.final /\ vSeq' = w /\ outcome' = "returned"
      /\ Contents(heap', v') = Contents(heap, call.final)
      /\ Contents(heap', vSeq') = Contents(heap, w)
      /\ Promises' => IInv'
  BY <1>1, <1>2, LeaveStep
<1>4. QED
  BY <1>1, <1>3
  DEF Promises, InputsFedOnce, FailedCallKeepsState, NoEagerAfterLaunch,
      RouteNamesWhatRan

-----------------------------------------------------------------------------
(* The invariant holds in every reachable state.                           *)

LEMMA InitStep ==
  ASSUME Init
  PROVE  IInv
<1>1. Free \in Tensors /\ Free.rows = 0 /\ StepCells \subseteq Cells
  BY DEF Tensors, Free, Cells
<1>2. TypedHeap(heap)
  BY <1>1 DEF Init, TypedHeap
<1>3. /\ {call.v, call.vSeq, call.init, call.final, call.seq, seen.ref, v, vSeq}
           = {NoTensor}
      /\ Types
  BY DEF Init, NoCall, Types, Nothing, Memory
<1>4. Tidy
  BY <1>2, <1>3 DEF Init, Tidy, Holds, Reached
<1>5. ReadVoltagesKept
  BY DEF Init, ReadVoltagesKept, Contents
<1>6. Asked /\ EagerCall /\ NativeCall
  BY DEF Init, Asked, EagerCall, NativeCall
<1>7. Promises
  BY DEF Init, Nothing, NotCalled, Promises, InputsFedOnce, FailedCallKeepsState,
         NoEagerAfterLaunch, RouteNamesWhatRan
<1>8. QED
  BY <1>3, <1>4, <1>5, <1>6, <1>7 DEF IInv

LEMMA StepKeepsInvariant ==
  ASSUME IInv, [Next]_vars
  PROVE  IInv'
<1>1. CASE Convert
  BY <1>1, ConvertStep
<1>2. CASE Reset
  BY <1>2, ResetStep
<1>3. CASE Detach
  BY <1>3, DetachStep DEF Detach
<1>4. CASE ReadVoltages
  BY <1>4, ReadVoltagesStep
<1>5. CASE SingleStep
  BY <1>5, SingleStepStep
<1>6. CASE MultiStepTorch
  BY <1>6, MultiStepTorchStep
<1>7. CASE EagerStep
  BY <1>7, EagerStepStep
<1>8. CASE EagerReturns
  BY <1>8, EagerReturnsStep
<1>9. CASE EagerRaises
  BY <1>9, EagerRaisesStep
<1>10. CASE MultiStepAsPy
  BY <1>10, MultiStepAsPyStep
<1>11. CASE RequireMasterParameter \/ RaiseAndRestore \/ RaiseUnhandled
  BY <1>11, RaiseSteps
<1>12. CASE Materialize
  BY <1>12, MaterializeStep
<1>13. CASE Clone
  BY <1>13, CloneStep
<1>14. CASE FallBack
  BY <1>14, FallBackStep
<1>15. CASE Launch
  BY <1>15, LaunchStep
<1>16. CASE Commit
  BY <1>16, CommitStep
<1>17. CASE UNCHANGED vars
  BY <1>17
  DEF vars, IInv, Types, Tidy, Holds, Reached, Locals, ReadVoltagesKept, Asked,
      EagerCall, NativeCall, Untouched, Promises, InputsFedOnce,
      FailedCallKeepsState, NoEagerAfterLaunch, RouteNamesWhatRan, Carried, Contents
<1>18. QED
  BY <1>1, <1>2, <1>3, <1>4, <1>5, <1>6, <1>7, <1>8, <1>9, <1>10, <1>11, <1>12,
     <1>13, <1>14, <1>15, <1>16, <1>17 DEF Next

(* The invariant of the proofs: nothing is collected that is referred to,  *)
(* and each stage of a call has fed the potential what it should.          *)
THEOREM Inductive == Spec => []IInv
<1>1. Init => IInv
  BY InitStep
<1>2. IInv /\ [Next]_vars => IInv'
  BY StepKeepsInvariant
<1>3. QED
  BY <1>1, <1>2, PTL DEF Spec

(* However calls, failures, resets and conversions follow each other, a    *)
(* forward of _aspy.py or neuron.py that returned integrated each input of *)
(* its sequence exactly once, and the stored voltages are its own.         *)
THEOREM FeedsOnce == Spec => []InputsFedOnce
<1>1. IInv => InputsFedOnce
  BY DEF IInv, Promises
<1>2. QED
  BY <1>1, Inductive, PTL

(* A multi-step call that raised before any step ran eagerly has left both *)
(* memories what they were, tensor and contents: the snapshot is put back  *)
(* and no kernel wrote to it.                                              *)
THEOREM FailureKeepsState == Spec => []FailedCallKeepsState
<1>1. IInv => FailedCallKeepsState
  BY DEF IInv, Promises
<1>2. QED
  BY <1>1, Inductive, PTL

(* No call runs eagerly once its kernel was launched, or at all under      *)
(* backend_strict, whichever of its steps failed.                          *)
THEOREM NoLateFallback == Spec => []NoEagerAfterLaunch
<1>1. IInv => NoEagerAfterLaunch
  BY DEF IInv, Promises
<1>2. QED
  BY <1>1, Inductive, PTL

(* last_backend_route of a multi-step call that returned is the            *)
(* implementation whose result became the state of the neuron.             *)
THEOREM RouteIsTrue == Spec => []RouteNamesWhatRan
<1>1. IInv => RouteNamesWhatRan
  BY DEF IInv, Promises
<1>2. QED
  BY <1>1, Inductive, PTL

(* The voltages a caller took from v_seq are never written again: no       *)
(* reset in place, allocation or kernel reaches their tensor.              *)
THEOREM VoltagesStay == Spec => []ReadVoltagesKept
<1>1. IInv => ReadVoltagesKept
  BY DEF IInv
<1>2. QED
  BY <1>1, Inductive, PTL
=============================================================================
