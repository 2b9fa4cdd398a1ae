------------------------- MODULE MCSpikingRecurrent ------------------------
(***************************************************************************)
(* SpikingRecurrent with one stateful layer of each kind, a stateful stack *)
(* and a bidirectional one, on the host and on an NPU, inside the BF16     *)
(* profile, the profile turned off, and a plain BF16 autocast context.     *)
(***************************************************************************)
EXTENDS SpikingRecurrent

CONSTANTS cpu, npu

Profile == [enabled |-> TRUE, dtype |-> "bf16", cache |-> FALSE, profile |-> TRUE]
NoProfile == [Profile EXCEPT !.enabled = FALSE]
Plain == [Profile EXCEPT !.profile = FALSE]
MCContexts == {Profile, NoProfile, Plain}
MCDevices == {cpu, npu}

Layer(kind, layers, directions) ==
  [kind |-> kind, layers |-> layers, directions |-> directions,
   stateful |-> directions = 1, dropout |-> layers > 1]
MCLayers ==
  {Layer("rnn", 1, 1), Layer("gru", 2, 1), Layer("lstm", 2, 1), Layer("lstm", 2, 2)}
=============================================================================
