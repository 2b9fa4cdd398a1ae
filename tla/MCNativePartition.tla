------------------------- MODULE MCNativePartition -------------------------
(***************************************************************************)
(* NativePartition with tiles of four values in blocks of two, three cores *)
(* and words of 24: rows up to five tiles, so that a core takes a second   *)
(* tile, with and without padding and with a short last tile.              *)
(***************************************************************************)
EXTENDS NativePartition
=============================================================================
