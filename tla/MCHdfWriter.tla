---------------------------- MODULE MCHdfWriter ----------------------------
(* The HDF writer with one context, two rings, two files and one fault: each *)
(* bound is the smallest at which its case happens (a second ring, a second  *)
(* file, a full queue, a full map, a full hold queue).                       *)
EXTENDS HdfWriter
=============================================================================
