-------------------------- MODULE AutocastContext --------------------------
(***************************************************************************)
(* The package's autocast contexts (src/spikingjelly_npu/npu/amp.py): a    *)
(* context variable that the modules read, beside torch's own autocast     *)
(* state, which decides in which type an operator runs.  Contexts of one   *)
(* thread nest and are left inside out, normally or by an exception.       *)
(***************************************************************************)
EXTENDS Sequences, Naturals

CONSTANT
  Contexts    \* the arguments of the contexts entered: Settings

Settings ==
  [enabled : BOOLEAN, dtype : {"bf16", "default"}, cache : BOOLEAN,
   profile : BOOLEAN]

ASSUME AutocastContextAssumption == Contexts \subseteq Settings

VARIABLES
  current,    \* _CURRENT_STATE
  torch,      \* torch's autocast state for the device
  frames      \* the contexts that are open, with what they restore

context == <<current, torch, frames>>

Disabled == [enabled |-> FALSE, dtype |-> "default", cache |-> FALSE, profile |-> FALSE]
TorchDefault == [enabled |-> FALSE, dtype |-> "default", cache |-> TRUE]

ContextInit ==
  /\ current = Disabled
  /\ torch = TorchDefault
  /\ frames = <<>>

IsNpuBf16AutocastActive ==
  current.enabled /\ current.dtype = "bf16" /\ ~current.cache /\ current.profile

\* torch.autocast(enabled=False) keeps the type and the cache.
TorchDisabled == [torch EXCEPT !.enabled = FALSE]

MutTorchWithin(s) ==
  IF s.enabled THEN [enabled |-> TRUE, dtype |-> s.dtype, cache |-> s.cache] ELSE torch

\* What torch is told by a package context; a disabled one turns autocast off
\* only inside an enabled one of the package.
TorchWithin(s) ==
  IF s.enabled THEN [enabled |-> TRUE, dtype |-> s.dtype, cache |-> s.cache]
  ELSE IF current.enabled THEN TorchDisabled ELSE torch
VisibleWithin(s) == IF s.enabled THEN s ELSE Disabled

Push(kind) == frames' = Append(frames, [kind |-> kind, token |-> current, saved |-> torch])

EnterAutocast(s) ==
  /\ Push("package")
  /\ current' = VisibleWithin(s)
  /\ torch' = TorchWithin(s)

MutVisibleAfterFailure(s) == VisibleWithin(s)

\* torch.autocast raises where it does not know the device; the variable was
\* set before, and the finally clause resets it.
VisibleAfterFailure(s) == current
EnterFails(s) ==
  /\ s.enabled \/ current.enabled
  /\ current' = VisibleAfterFailure(s)
  /\ UNCHANGED <<torch, frames>>

\* with torch.autocast(device_type="npu", enabled=False), entered directly.
EnterTorchDisabled ==
  /\ Push("torch")
  /\ torch' = TorchDisabled
  /\ UNCHANGED current

Leave ==
  LET top == frames[Len(frames)]
  IN  /\ frames # <<>>
      /\ current' = top.token
      /\ torch' = top.saved
      /\ frames' = SubSeq(frames, 1, Len(frames) - 1)
-----------------------------------------------------------------------------
\* Nothing but package contexts is open.
PackageOnly == \A i \in DOMAIN frames : frames[i].kind = "package"

\* What the package says is in force is what torch does, as long as only the
\* package's contexts are open, whatever was nested, left or failed before.
VisibleIsInForce ==
  PackageOnly =>
    /\ current.enabled <=> torch.enabled
    /\ current.enabled => torch.dtype = current.dtype /\ torch.cache = current.cache

\* With every context left nothing stays behind, in either state.
NothingLeftBehind == frames = <<>> => current = Disabled /\ torch = TorchDefault
=============================================================================
