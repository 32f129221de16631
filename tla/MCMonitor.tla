------------------------------ MODULE MCMonitor ------------------------------
(* Instances of Monitor for TLC.                                           *)
EXTENDS Monitor

CONSTANTS h1, h2  \* urls

OwnHosts    == <<h1, h2>>   \* two entries, two urls
OneHost     == <<h1>>

ShortIntervals == <<1, 3>>
LongInterval   == <<60>>
=============================================================================
