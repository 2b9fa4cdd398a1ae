---------------------------- MODULE MCGraphBuckets ----------------------------
(* Small models and two buckets for GraphBuckets.  TwoBuffers is for a     *)
(* model without parameters, whose first buffer decides the device.        *)
EXTENDS GraphBuckets, TLC

CONSTANTS leaf, drop, w, r, w1, r1, r2, host, npu1, b1, b2

OneModule == {leaf}
TwoModules == {leaf, drop}
None == {}
MCRngModules == {drop}
MCParams == {w}
MCBuffers == {r}
OneObj == {w1}
MCBufferObjs == {r1}
TwoBuffers == {r1, r2}
MCStorages == {host, npu1}
MCHostStorages == {host}
MCBuckets == {b1, b2}
OneBucket == {b1}
BucketSymmetry == Permutations(MCBuckets)

OneId == <<1>>
DistinctIds == <<1, 2>>
ReusedIds == <<1, 2, 1>>
=============================================================================
