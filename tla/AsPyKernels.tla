---------------------------- MODULE AsPyKernels ----------------------------
(***************************************************************************)
(* The positional contract between the autograd functions of               *)
(* src/spikingjelly_npu_aspy.py and the kernels exported by                *)
(* src/native/aspy/bridge/aspy_bridge.cpp.                                 *)
(*                                                                         *)
(* A bridge function takes and returns tensors by position.  An autograd   *)
(* function names what the forward kernel returned (unpacked), keeps some  *)
(* of it and of its inputs (saved), returns some of it (outputs), and, in  *)
(* another call, names what it kept (restored) and the gradients of its    *)
(* outputs (gradients) and hands them to the backward kernel (arguments).  *)
(* Five sequences must agree, and two more of another language.  Scalars   *)
(* are left out: they go by attribute of the context, under one name.      *)
(***************************************************************************)
EXTENDS Sequences, Naturals

Kernels == {"if", "if_compact", "lif", "lif_compact", "plif", "klif",
            "fedsnn_decay_lif"}

(***************************************************************************)
(* The bridge: what a forward kernel returns, what a backward one takes.   *)
(***************************************************************************)
FullOutputs == <<"spike_seq", "v_seq", "v_final", "h_seq">>
CompactOutputs == <<"spike_seq", "v_final", "h_seq">>
BridgeForward ==
  [if |-> FullOutputs, if_compact |-> CompactOutputs,
   lif |-> FullOutputs, lif_compact |-> CompactOutputs,
   plif |-> Append(FullOutputs, "v_prev_seq"),
   klif |-> Append(FullOutputs, "v_prev_seq"),
   fedsnn_decay_lif |-> <<"spike_seq", "h_seq">>]

FullArguments ==
  <<"h_seq", "spike_seq", "grad_spike_seq", "grad_v_seq", "grad_v_final">>
CompactArguments == <<"h_seq", "spike_seq", "grad_spike_seq", "grad_v_final">>
BridgeBackward ==
  [if |-> FullArguments, if_compact |-> CompactArguments,
   lif |-> FullArguments, lif_compact |-> CompactArguments,
   plif |-> <<"x_seq", "v_prev_seq">> \o FullArguments \o <<"reciprocal_tau">>,
   klif |-> <<"x_seq", "v_prev_seq">> \o FullArguments \o <<"k">>,
   fedsnn_decay_lif |-> <<"h_seq", "grad_spike_seq">>]

(***************************************************************************)
(* The autograd functions.                                                 *)
(***************************************************************************)
AsPyIF ==
  [unpacked |-> <<"spike_seq", "v_seq", "v_final", "h_seq">>,
   outputs |-> <<"spike_seq", "v_final", "v_seq">>,
   saved |-> <<"h_seq", "spike_seq">>,
   restored |-> <<"h_seq", "spike_seq">>,
   gradients |-> <<"grad_spike_seq", "grad_v_final", "grad_v_seq">>,
   arguments |-> <<"h_seq", "spike_seq", "grad_spike_seq", "grad_v_seq",
                   "grad_v_final">>]

AsPyIFCompact ==
  [unpacked |-> <<"spike_seq", "v_final", "h_seq">>,
   outputs |-> <<"spike_seq", "v_final">>,
   saved |-> <<"h_seq", "spike_seq">>,
   restored |-> <<"h_seq", "spike_seq">>,
   gradients |-> <<"grad_spike_seq", "grad_v_final">>,
   arguments |-> <<"h_seq", "spike_seq", "grad_spike_seq", "grad_v_final">>]

\* Both LIF functions follow the IF ones; they add scalars.
AsPyLIF == AsPyIF
AsPyLIFCompact == AsPyIFCompact

AsPyPLIF ==
  [unpacked |-> <<"spike_seq", "v_seq", "v_final", "h_seq", "v_prev_seq">>,
   outputs |-> <<"spike_seq", "v_final", "v_seq">>,
   saved |-> <<"x_seq", "v_prev_seq", "h_seq", "spike_seq", "reciprocal_tau">>,
   restored |-> <<"x_seq", "v_prev_seq", "h_seq", "spike_seq",
                  "reciprocal_tau">>,
   gradients |-> <<"grad_spike_seq", "grad_v_final", "grad_v_seq">>,
   arguments |-> <<"x_seq", "v_prev_seq", "h_seq", "spike_seq",
                   "grad_spike_seq", "grad_v_seq", "grad_v_final",
                   "reciprocal_tau">>]

MutAsPyKLIF == [AsPyPLIF EXCEPT
  !.saved[5] = "k", !.restored = <<"x_seq", "h_seq", "v_prev_seq", "spike_seq", "k">>,
  !.arguments[8] = "k"]

AsPyKLIF ==
  [unpacked |-> <<"spike_seq", "v_seq", "v_final", "h_seq", "v_prev_seq">>,
   outputs |-> <<"spike_seq", "v_final", "v_seq">>,
   saved |-> <<"x_seq", "v_prev_seq", "h_seq", "spike_seq", "k">>,
   restored |-> <<"x_seq", "v_prev_seq", "h_seq", "spike_seq", "k">>,
   gradients |-> <<"grad_spike_seq", "grad_v_final", "grad_v_seq">>,
   arguments |-> <<"x_seq", "v_prev_seq", "h_seq", "spike_seq",
                   "grad_spike_seq", "grad_v_seq", "grad_v_final", "k">>]

AsPyFedSNNDecayLIF ==
  [unpacked |-> <<"spike_seq", "h_seq">>,
   outputs |-> <<"spike_seq">>,
   saved |-> <<"h_seq">>,
   restored |-> <<"h_seq">>,
   gradients |-> <<"grad_spike_seq">>,
   arguments |-> <<"h_seq", "grad_spike_seq">>]

Function(k) ==
  CASE k = "if" -> AsPyIF            [] k = "if_compact" -> AsPyIFCompact
    [] k = "lif" -> AsPyLIF          [] k = "lif_compact" -> AsPyLIFCompact
    [] k = "plif" -> AsPyPLIF        [] k = "klif" -> AsPyKLIF
    [] k = "fedsnn_decay_lif" -> AsPyFedSNNDecayLIF

(***************************************************************************)
(* What flows between them.  A tensor is what the kernel that made it, or  *)
(* the caller who passed it, calls it; a gradient is of such a tensor.     *)
(***************************************************************************)
At(names, values, n) == values[CHOOSE i \in DOMAIN names : names[i] = n]
Names(s) == {s[i] : i \in DOMAIN s}

Value(n) == [kind |-> "tensor", of |-> n]
Gradient(n) == [kind |-> "gradient", of |-> n]
Zeros == [kind |-> "zeros", of |-> "none"]

\* The tensor kernel k returned where its function says n; inputs are themselves.
Returned(k, n) ==
  IF n \in Names(Function(k).unpacked)
  THEN At(Function(k).unpacked, BridgeForward[k], n) ELSE n
SavedTensors(k) ==
  [i \in DOMAIN Function(k).saved |-> Value(Returned(k, Function(k).saved[i]))]
PublicOutputs(k) ==
  [i \in DOMAIN Function(k).outputs |-> Returned(k, Function(k).outputs[i])]

\* What the backward kernel of k receives, given what the context saved and
\* the outputs that have a gradient: zeros stand in for the others.
Received(k, context, used) ==
  LET f == Function(k)
      incoming == [i \in DOMAIN f.gradients |->
        IF PublicOutputs(k)[i] \in used
        THEN Gradient(PublicOutputs(k)[i]) ELSE Zeros]
  IN  [i \in DOMAIN f.arguments |->
        IF f.arguments[i] \in Names(f.gradients)
        THEN At(f.gradients, incoming, f.arguments[i])
        ELSE At(f.restored, context, f.arguments[i])]

\* What the kernel's own parameter n stands for.
GradientOf ==
  [grad_spike_seq |-> "spike_seq", grad_v_seq |-> "v_seq",
   grad_v_final |-> "v_final"]
Meant(n, used) ==
  IF n \notin DOMAIN GradientOf THEN Value(n)
  ELSE IF GradientOf[n] \in used THEN Gradient(GradientOf[n]) ELSE Zeros
=============================================================================
