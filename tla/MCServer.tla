------------------------------ MODULE MCServer ------------------------------
(* Instances of Server for TLC.  Clients and descriptors are               *)
(* interchangeable in every safety property.                               *)
EXTENDS Server, TLC

CONSTANTS a, b, f1, f2

Interchangeable == Permutations(Clients) \cup Permutations(Fds)
=============================================================================
