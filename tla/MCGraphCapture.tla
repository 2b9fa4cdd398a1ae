---------------------------- MODULE MCGraphCapture ----------------------------
(* Two parameters, three buffers of which two name one tensor, and memories *)
(* one of which shares a tensor with a buffer.                             *)
EXTENDS GraphCapture

MCParameters == {"w", "u"}
MCBufferSeq == <<"mean", "alias", "init">>
MCMemorySeq == <<"v", "v_seq">>
MCTensorOf == [n \in {"mean", "alias", "init", "v", "v_seq"} |->
                 CASE n \in {"mean", "alias"} -> "t1"
                   [] n \in {"init", "v"} -> "t2"
                   [] OTHER -> "t3"]
MCDevices == <<"npu0", "npu1">>
=============================================================================
