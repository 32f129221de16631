-------------------------------- MODULE Ages --------------------------------
(***************************************************************************)
(* Ages of past requests, the oldest first, in ticks of a clock.           *)
(***************************************************************************)
EXTENDS Naturals, Sequences

(* A tick later.                                                           *)
Older(ages) == [i \in DOMAIN ages |-> ages[i] + 1]

(* Those younger than window.  There is such a number as long as the ages  *)
(* are in order, and TLC stops with an error where there is none.          *)
Within(ages, window) ==
  LET past == CHOOSE n \in 0..Len(ages) :
                \A i \in DOMAIN ages : i <= n <=> ages[i] >= window
  IN  SubSeq(ages, past + 1, Len(ages))
=============================================================================
