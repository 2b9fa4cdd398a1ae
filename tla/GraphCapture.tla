----------------------------- MODULE GraphCapture -----------------------------
(***************************************************************************)
(* One capture: _make_graphed_callable in src/spikingjelly_npu/npu/graph.py*)
(* step by step.  The model is snapshotted, torch.npu.make_graphed_        *)
(* callables runs its forward several times (that code may do anything to  *)
(* the model), then each category is put back by a step of its own, and a  *)
(* failed step must neither stop the later ones nor stay unreported.       *)
(*                                                                         *)
(* A tensor is described relative to the snapshot: `val`, `meta` and `ptr` *)
(* say whether its value, its metadata and its storage are the saved ones, *)
(* `ver` counts the in-place updates since.                                *)
(***************************************************************************)
EXTENDS Naturals, Sequences, SequencesExt

CONSTANTS
  Parameters,      \* parameter names; a parameter is its own tensor object
  BufferSeq,       \* buffer names in the order of named_buffers()
  MemorySeq,       \* the keys of one module's _memories
  TensorOf,        \* the tensor object of each buffer name and memory key
  Devices,         \* the NPUs whose generator the capture uses, in order
  MaxTouches,      \* bound: how often the warm-up disturbs something
  MaxFaults        \* bound: how many cleanup copies raise by themselves

BufferNames == Range(BufferSeq)
Names == Parameters \cup BufferNames
HomeOf(n) == IF n \in Parameters THEN n ELSE TensorOf[n]
Tensors == Parameters \cup {TensorOf[n] : n \in DOMAIN TensorOf}
Foreign == "foreign"           \* a tensor object the snapshot does not know
Kinds == {"parameters", "buffers"}
Generators == {"cpu"} \cup Range(Devices)

\* What the other cleanup steps are about.
Categories ==
  {"model parameters", "model buffers", "parameter gradients",
   "runtime memories", "module training state", "model structure"}

ASSUME CaptureAssumption ==
  /\ BufferSeq \in Seq(BufferNames) /\ MemorySeq \in Seq(Range(MemorySeq))
  /\ Devices \in Seq(Range(Devices))
  /\ BufferNames \cup Range(MemorySeq) = DOMAIN TensorOf
  /\ Parameters \cap (BufferNames \cup {TensorOf[n] : n \in DOMAIN TensorOf}) = {}
  /\ Foreign \notin Tensors
  /\ Generators \cap Categories = {}
  /\ {MaxTouches, MaxFaults} \subseteq Nat

VARIABLES
  phase,       \* "before", "launched", "cleanup", "done"
  tensor,      \* tensor objects, relative to the snapshot
  binding,     \* the tensor object of each parameter and buffer name
  named,       \* the names of each kind are the snapshot's
  grad,        \* parameter.grad: "none", "saved", "dirty", "reshaped"
  savedGrad,   \* the gradient snapshot: "none" or "saved"
  mapping,     \* _memories holds the snapshot's entries
  modes,       \* the training flags are the snapshot's
  modules,     \* the module objects are the snapshot's
  rng,         \* each generator is in its saved state
  raised,      \* how make_graphed_callables ended
  todo,        \* cleanup steps still to run
  errors,      \* cleanup_errors, by the name of the step
  recorded,    \* the buffer versions in the finalized structure
  outcome,     \* what _make_graphed_callable did
  touches, faults

capturedVars == <<tensor, binding, named, grad, mapping, modes, modules, rng>>
captureVars == <<phase, capturedVars, savedGrad, raised, todo, errors, recorded,
                 outcome, touches, faults>>

(* Fault: the structure is finalized before anything has been put back.    *)
MutStructureFirst ==
  <<"model structure", "model parameters", "model buffers",
    "parameter gradients", "runtime memories", "module training state", "cpu">>
  \o Devices

CleanupSteps ==
  <<"model parameters", "model buffers", "parameter gradients",
    "runtime memories", "module training state", "cpu">>
  \o Devices \o <<"model structure">>

Saved == [val |-> TRUE, meta |-> TRUE, ptr |-> TRUE, ver |-> 0]

CaptureInit ==
  /\ phase = "before"
  /\ tensor = [t \in Tensors |-> Saved]
  /\ binding = [n \in Names |-> HomeOf(n)]
  /\ named = [k \in Kinds |-> TRUE]
  /\ savedGrad \in [Parameters -> {"none", "saved"}]
  /\ grad = savedGrad
  /\ mapping = TRUE /\ modes = TRUE /\ modules = TRUE
  /\ rng = [g \in Generators |-> TRUE]
  /\ raised = "nothing"
  /\ todo = <<>>
  /\ errors = {}
  /\ recorded = <<>>
  /\ outcome = "none"
  /\ touches = 0 /\ faults = 0

-----------------------------------------------------------------------------
(* Before the launch: a missing API, a hook or a memory that cannot be     *)
(* copied ends the call with the plain error.                              *)

RefuseCapture ==
  /\ phase = "before"
  /\ phase' = "done"
  /\ outcome' = "refused"
  /\ UNCHANGED <<capturedVars, savedGrad, raised, todo, errors, recorded,
                 touches, faults>>

Launch ==
  /\ phase = "before"
  /\ phase' = "launched"
  /\ UNCHANGED <<capturedVars, savedGrad, raised, todo, errors, recorded,
                 outcome, touches, faults>>

-----------------------------------------------------------------------------
(* The warm-up runs the model's own Python code.                           *)

TouchTensor ==
  /\ \E t \in Tensors :
       \E d \in {[val |-> FALSE, ver |-> tensor[t].ver + 1],   \* t.copy_(other)
                 [val |-> TRUE,  ver |-> tensor[t].ver + 1],   \* written back
                 [val |-> FALSE, ver |-> tensor[t].ver]} :     \* t.data.copy_(other)
         tensor' = [tensor EXCEPT ![t].val = d.val, ![t].ver = d.ver]
  /\ UNCHANGED <<binding, named, grad, mapping, modes, modules, rng>>

MoveTensor ==                                     \* t.data = other
  /\ \E t \in Tensors, sameShape \in BOOLEAN :
       tensor' = [tensor EXCEPT ![t].val = FALSE, ![t].ptr = FALSE,
                                ![t].meta = sameShape]
  /\ UNCHANGED <<binding, named, grad, mapping, modes, modules, rng>>

ReplaceTensor ==                                  \* module.name = other
  /\ \E n \in Names : binding' = [binding EXCEPT ![n] = Foreign]
  /\ UNCHANGED <<tensor, named, grad, mapping, modes, modules, rng>>

RegisterName ==                                   \* register_buffer(...)
  /\ \E k \in Kinds : named' = [named EXCEPT ![k] = FALSE]
  /\ UNCHANGED <<tensor, binding, grad, mapping, modes, modules, rng>>

TouchGradient ==
  /\ \E p \in Parameters : \E g \in {"none", "dirty", "reshaped"} :
       grad' = [grad EXCEPT ![p] = g]
  /\ UNCHANGED <<tensor, binding, named, mapping, modes, modules, rng>>

TouchMapping ==                                   \* module.v = new state
  /\ mapping' = FALSE
  /\ UNCHANGED <<tensor, binding, named, grad, modes, modules, rng>>

TouchModes ==
  /\ modes' = FALSE
  /\ UNCHANGED <<tensor, binding, named, grad, mapping, modules, rng>>

TouchModules ==
  /\ modules' = FALSE
  /\ UNCHANGED <<tensor, binding, named, grad, mapping, modes, rng>>

DrawRandom ==
  /\ \E g \in Generators : rng' = [rng EXCEPT ![g] = FALSE]
  /\ UNCHANGED <<tensor, binding, named, grad, mapping, modes, modules>>

WarmUp ==
  /\ phase = "launched"
  /\ touches < MaxTouches
  /\ touches' = touches + 1
  /\ \/ TouchTensor \/ MoveTensor \/ ReplaceTensor \/ RegisterName
     \/ TouchGradient \/ TouchMapping \/ TouchModes \/ TouchModules
     \/ DrawRandom
  /\ UNCHANGED <<phase, savedGrad, raised, todo, errors, recorded, outcome,
                 faults>>

(* make_graphed_callables returns a callable, or None, or raises.          *)
LaunchEnds ==
  /\ phase = "launched"
  /\ phase' = "cleanup"
  /\ raised' \in {"nothing", "no callable", "exception", "interrupt"}
  /\ todo' = CleanupSteps
  /\ UNCHANGED <<capturedVars, savedGrad, errors, recorded, outcome, touches,
                 faults>>

-----------------------------------------------------------------------------
(* Cleanup.  Every restore takes `ok`, FALSE when the step raises, and     *)
(* `fault`, TRUE when it raises because a copy fails by itself.            *)

(* item.tensor.copy_(item.value) for the first k names of a sequence.      *)
CopyBack(names, k) ==
  LET copies(t) == Cardinality({i \in 1..k : TensorOf[names[i]] = t})
  IN tensor' = [t \in Tensors |->
       IF copies(t) = 0 THEN tensor[t]
       ELSE [tensor[t] EXCEPT !.val = TRUE, !.ver = @ + copies(t)]]

(* A loop over names that copies back and raises at the first it cannot.   *)
CopyLoop(names, CanCopy(_), ok, fault) ==
  \E k \in 0..Len(names) :
    /\ \A i \in 1..k : CanCopy(names[i])
    /\ ok <=> k = Len(names)
    /\ ~ok => fault \/ ~CanCopy(names[k + 1])
    /\ CopyBack(names, k)

SameParameter(p) == binding[p] = p /\ tensor[p].ptr /\ tensor[p].meta

(* Accidental values are put back, but any trace of a write is an error.   *)
RestoreParameters(ok, fault) ==
  LET dirty == {p \in Parameters : /\ named["parameters"]
                                   /\ SameParameter(p) /\ ~tensor[p].val}
  IN /\ ok <=> /\ named["parameters"] /\ ~fault
               /\ \A p \in Parameters : SameParameter(p) /\ tensor[p] = Saved
     /\ \E done \in SUBSET dirty :
          /\ ~fault => done = dirty
          /\ tensor' = [t \in Tensors |->
               IF t \in done THEN [tensor[t] EXCEPT !.val = TRUE, !.ver = @ + 1]
                             ELSE tensor[t]]
     /\ UNCHANGED <<binding, named, grad, mapping, modes, modules, rng>>

RestoreBuffers(ok, fault) ==
  LET CanCopy(q) == binding[q] = TensorOf[q] /\ tensor[TensorOf[q]].meta
  IN /\ IF named["buffers"] THEN CopyLoop(BufferSeq, CanCopy, ok, fault)
                            ELSE ~ok /\ ~fault /\ UNCHANGED tensor
     /\ UNCHANGED <<binding, named, grad, mapping, modes, modules, rng>>

(* The order of the parameters is left open: when one cannot be served any *)
(* of the others may have come before it.                                  *)
RestoreGradients(ok, fault) ==
  LET good == {p \in Parameters : /\ named["parameters"]
                                  /\ binding[p] = p
                                  /\ savedGrad[p] = "saved" => grad[p] # "reshaped"}
  IN /\ \E done \in SUBSET good :
          /\ ok <=> done = Parameters
          /\ ~ok => fault \/ good # Parameters
          /\ grad' = [p \in Parameters |-> IF p \in done THEN savedGrad[p] ELSE grad[p]]
     /\ UNCHANGED <<tensor, binding, named, mapping, modes, modules, rng>>

(* The mapping is refilled only when all its tensors have been put back.   *)
RestoreMemories(ok, fault) ==
  LET CanCopy(m) == tensor[TensorOf[m]].meta
  IN /\ CopyLoop(MemorySeq, CanCopy, ok, fault)
     /\ mapping' = (ok \/ mapping)
     /\ UNCHANGED <<binding, named, grad, modes, modules, rng>>

RestoreTrainingModes(ok, fault) ==
  /\ ok /\ ~fault
  /\ modes' = TRUE
  /\ UNCHANGED <<tensor, binding, named, grad, mapping, modules, rng>>

RestoreGenerator(g, ok, fault) ==
  /\ ok <=> ~fault
  /\ rng' = [rng EXCEPT ![g] = ok \/ @]
  /\ UNCHANGED <<tensor, binding, named, grad, mapping, modes, modules>>

(* _finalize_module_structure_after_capture: parameters must be untouched; *)
(* buffers may have moved on in version only, and that version is kept.    *)
StructureUnchanged ==
  /\ modules
  /\ \A k \in Kinds : named[k]
  /\ \A n \in Names : binding[n] = HomeOf(n) /\ tensor[HomeOf(n)].ptr
  /\ \A p \in Parameters : tensor[p].ver = 0

Finalize(ok, fault) ==
  /\ ~fault
  /\ ok <=> StructureUnchanged
  /\ recorded' = IF ok THEN [q \in BufferNames |-> tensor[TensorOf[q]].ver] ELSE <<>>
  /\ UNCHANGED capturedVars

Restore(step, ok, fault) ==
  \/ step = "model parameters" /\ RestoreParameters(ok, fault)
  \/ step = "model buffers" /\ RestoreBuffers(ok, fault)
  \/ step = "parameter gradients" /\ RestoreGradients(ok, fault)
  \/ step = "runtime memories" /\ RestoreMemories(ok, fault)
  \/ step = "module training state" /\ RestoreTrainingModes(ok, fault)
  \/ step \in Generators /\ RestoreGenerator(step, ok, fault)

(* Fault: the first failed step ends the cleanup.                          *)
MutOneTry ==
  /\ phase = "cleanup"
  /\ todo # <<>>
  /\ \E ok, fault \in BOOLEAN :
       /\ fault => ~ok /\ faults < MaxFaults
       /\ faults' = IF fault THEN faults + 1 ELSE faults
       /\ \/ Restore(Head(todo), ok, fault) /\ UNCHANGED recorded
          \/ Head(todo) = "model structure" /\ Finalize(ok, fault)
       /\ errors' = IF ok THEN errors ELSE errors \cup {Head(todo)}
       /\ todo' = IF ok THEN Tail(todo) ELSE <<>>
  /\ UNCHANGED <<phase, savedGrad, raised, outcome, touches>>

CleanupStep ==
  /\ phase = "cleanup"
  /\ todo # <<>>
  /\ \E ok, fault \in BOOLEAN :
       /\ fault => ~ok /\ faults < MaxFaults
       /\ faults' = IF fault THEN faults + 1 ELSE faults
       /\ \/ Restore(Head(todo), ok, fault) /\ UNCHANGED recorded
          \/ Head(todo) = "model structure" /\ Finalize(ok, fault)
       /\ errors' = IF ok THEN errors ELSE errors \cup {Head(todo)}
  /\ todo' = Tail(todo)
  /\ UNCHANGED <<phase, savedGrad, raised, outcome, touches>>

(* KeyboardInterrupt inside a cleanup step ends the cleanup there.         *)
CleanupCut ==
  /\ phase = "cleanup"
  /\ todo # <<>>
  /\ phase' = "done"
  /\ outcome' = "interrupted"
  /\ UNCHANGED <<capturedVars, savedGrad, raised, todo, errors, recorded,
                 touches, faults>>

(* An exception that is not an Exception leaves after the cleanup, and     *)
(* what the cleanup collected is forgotten.                                *)
Conclude ==
  /\ phase = "cleanup"
  /\ todo = <<>>
  /\ phase' = "done"
  /\ outcome' = IF raised = "interrupt" THEN "interrupted"
                ELSE IF errors # {} \/ raised # "nothing" THEN "fatal"
                ELSE "graphed"
  /\ UNCHANGED <<capturedVars, savedGrad, raised, todo, errors, recorded,
                 touches, faults>>

CaptureStep ==
  \/ RefuseCapture \/ Launch \/ WarmUp \/ LaunchEnds
  \/ CleanupStep \/ CleanupCut \/ Conclude

CaptureSpec == CaptureInit /\ [][CaptureStep]_captureVars

-----------------------------------------------------------------------------
(* Properties.                                                             *)

(* The category of a cleanup step is back where the snapshot had it.       *)
Back(step) ==
  CASE step = "model parameters" ->
         named["parameters"] /\ \A p \in Parameters : binding[p] = p /\ tensor[p] = Saved
    [] step = "model buffers" ->
         /\ named["buffers"]
         /\ \A q \in BufferNames : /\ binding[q] = TensorOf[q]
                                   /\ tensor[TensorOf[q]].val /\ tensor[TensorOf[q]].meta
    [] step = "parameter gradients" -> grad = savedGrad
    [] step = "runtime memories" ->
         mapping /\ \A m \in Range(MemorySeq) : tensor[TensorOf[m]].val
    [] step = "module training state" -> modes
    [] step \in Generators -> rng[step]
    [] step = "model structure" -> StructureUnchanged

(* The categories named in the error the call ends with: an interrupt is   *)
(* raised past the statement that would name them (line 976).              *)
Reported == IF outcome = "fatal" THEN errors ELSE {}

(* A capture that returns or fails leaves every category either back or    *)
(* named in the error, whatever the warm-up did, however the launch ended  *)
(* and whichever earlier step failed (lines 942-989).  An interrupt takes  *)
(* away the report only: unless it cut the cleanup itself, a category that *)
(* is not back is one whose own step failed.                               *)
BackOrReported ==
  \A i \in 1..Len(CleanupSteps) :
    LET step == CleanupSteps[i] IN
    /\ outcome \in {"graphed", "fatal"} => step \in Reported \/ Back(step)
    /\ outcome = "interrupted" /\ todo = <<>> => step \in errors \/ Back(step)

(* A capture is handed out only if the whole model is back, and with the   *)
(* buffer versions the cleanup left, so that the next call finds the       *)
(* execution state it compares with (lines 606-614, 976-990).              *)
GraphedIsClean ==
  outcome = "graphed" =>
    /\ \A i \in 1..Len(CleanupSteps) : Back(CleanupSteps[i])
    /\ recorded = [q \in BufferNames |-> tensor[TensorOf[q]].ver]

=============================================================================
