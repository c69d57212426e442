----------------------------- MODULE MCShmRing -----------------------------
(* Instances of ShmRing for TLC.                                               *)
EXTENDS ShmRing

CONSTANTS r1,                     \* a reader
          stamp, payload, meta    \* words

MC_Stamp == {stamp}
MC_Payload == {payload}
MC_Meta == {meta}
MC_None == {}

MC_OneReader == {r1}
MC_AllKinds == {"hdf", "analysis", "gateway", "trace"}
MC_HdfOnly == {"hdf"}
MC_BothLayouts == {TRUE, FALSE}
MC_Hinted == {TRUE}
=============================================================================
