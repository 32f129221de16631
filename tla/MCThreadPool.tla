---------------------------- MODULE MCThreadPool ----------------------------
(* Instances of ThreadPool for TLC: workers and tasks are model values.    *)
EXTENDS ThreadPool

CONSTANTS w1, w2, t1, t2, t3
=============================================================================
