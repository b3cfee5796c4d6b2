---------------------------- MODULE MCOrleansStorage ----------------------------
(***************************************************************************)
(* Small instances of OrleansStorage for TLC.                              *)
(***************************************************************************)
EXTENDS OrleansStorage

\* A split brain: two or three activations of one grain.
TwoSlots == {"s1", "s2"}
ThreeSlots == {"s1", "s2", "s3"}
\* The cluster is whole when the grain is used first.
OneFirst == {"s1"}
=================================================================================
