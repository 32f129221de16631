------------------------------ MODULE MCLimiter ------------------------------
(* Three limiter objects asked about one address each: one with a limit of *)
(* two, one that allows nothing, and one with a negative limit, which      *)
(* becomes SizeValues - 1.                                                 *)
EXTENDS SlidingWindowLimiter

MCKeys == {"two", "zero", "negative"}
MCMaxRequests ==
  [k \in MCKeys |-> CASE k = "two" -> 2 [] k = "zero" -> 0 [] OTHER -> -1]
=============================================================================
