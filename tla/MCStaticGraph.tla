---------------------------- MODULE MCStaticGraph -----------------------------
(* A small model and two input signatures for StaticGraph.                 *)
EXTENDS StaticGraph

CONSTANTS leaf, w, r, w1, w2, r1, host, npu1, i1, i2

MCModules == {leaf}
MCParams == {w}
MCBuffers == {r}
MCParamObjs == {w1, w2}
MCBufferObjs == {r1}
MCStorages == {host, npu1}
MCHostStorages == {host}
MCInputs == {i1, i2}

OneId == <<1>>
=============================================================================
