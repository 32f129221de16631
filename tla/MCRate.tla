-------------------------------- MODULE MCRate --------------------------------
(* The code's numbers scaled down: 50, 100, ten windows of a second.       *)
EXTENDS RateControl

CONSTANTS a1, a2, f1, f2, f3
MCIps == {a1, a2}
MCFds == {f1, f2, f3}
=============================================================================
