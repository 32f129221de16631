------------------------------ MODULE MCProbing ------------------------------
(* One url, a latency below, between and above the thresholds, and three   *)
(* quantiles that fall on and between the few samples of a short window.   *)
EXTENDS Probing

MCFds       == {3, 4}
MCCodes     == {200, 500}
MCPercents  == {25, 50, 75}
MCLatencies == {1, 5, 9}
=============================================================================
